---- MODULE Spec2Model ----
(***************************************************************************)
(* Model of the oplus schema catalogue (oplus/idf/idd.py), of its field    *)
(* descriptors (oplus/epm/field_descriptor.py) and of the output-file      *)
(* parser (oplus/standard_output/parse_eso.py).                            *)
(*                                                                         *)
(* Text is a sequence of one-character strings, so that the regular        *)
(* expressions, the case folding and the splitting of the code are         *)
(* computed character by character.  The atom "U+00E9" stands for the one  *)
(* non-ASCII character of the alphabet (e with acute accent).              *)
(***************************************************************************)
EXTENDS Integers, Sequences, FiniteSets, TLC

VARIABLES
    head,                  \* the lines the schema file starts with
    pc,                    \* position in Idd.__init__: "parse", "post_init", "link", "done", "failed"
    i,                     \* enumerate() counter of _parse, -1 before the first line
    raw_line,              \* the line last read by _parse
    group_name,            \* _parse local
    rd,                    \* _parse local: 0 for None, else the descriptor's position in rds
    fieldd,                \* _parse local: <<0, 0>> for None, else <<record, field position>>
    rds,                   \* every TableDescriptor object created so far
    table_descriptors,     \* self._table_descriptors: ordered <<key, record>> pairs
    pointed_rd_linkds_d,   \* self._pointed_rd_linkds_d
    pointing_rd_linkds_d,  \* self._pointing_rd_linkds_d
    pi,                    \* _post_init: number of descriptors already visited
    error,                 \* the exception that left __init__, if any
    idd,                   \* TRUE once the caller holds the constructed Idd
    ret,                   \* what the last lookup returned or raised
    fd,                    \* a FieldDescriptor object
    fd_ret,                \* what the last call on fd returned or raised
    eso_file,              \* parse_eso: the rows the output file starts with
    eso_pc,                \* parse_eso: "version", "dictionary", "data", "done", "failed"
    eso_i,                 \* parse_eso: number of rows read
    eso_error,             \* parse_eso: the exception that left parse, "None" if none
    annual_code,           \* parse local
    manage_timesteps,      \* parse local
    variables_info,        \* parse local: ordered <<code, frequency>> pairs
    environments,          \* parse local: ordered <<title, title>> pairs
    environments_data,     \* parse local: title -> column -> list
    current_data,          \* parse local: None, or the title whose data it is
    last_timestep_end,     \* parse local: None, or <<month, day, hour, end_minute>>
    environments_dfs       \* parse local: title -> frequency -> table

vars == <<head, pc, i, raw_line, group_name, rd, fieldd, rds, table_descriptors,
          pointed_rd_linkds_d, pointing_rd_linkds_d, pi, error, idd, ret, fd, fd_ret,
          eso_file, eso_pc, eso_i, eso_error, annual_code, manage_timesteps, variables_info,
          environments, environments_data, current_data, last_timestep_end, environments_dfs>>

idd_vars == <<head, pc, i, raw_line, group_name, rd, fieldd, rds, table_descriptors,
              pointed_rd_linkds_d, pointing_rd_linkds_d, pi, error, idd, ret>>

fd_vars == <<fd, fd_ret>>

eso_vars == <<eso_file, eso_pc, eso_i, eso_error, annual_code, manage_timesteps, variables_info,
              environments, environments_data, current_data, last_timestep_end, environments_dfs>>

-----------------------------------------------------------------------------
(* Bounds *)

\* number of schema lines that follow the head of the file
MaxLines == 4

-----------------------------------------------------------------------------
(* Characters and strings *)

UpperLetters == <<"A","B","C","D","E","F","G","H","I","J","K","L","M","N","O","P","Q","R","S","T","U","V","W","X","Y","Z">>

LowerLetters == <<"a","b","c","d","e","f","g","h","i","j","k","l","m","n","o","p","q","r","s","t","u","v","w","x","y","z">>

Digits == {"0", "1", "2", "3", "4", "5", "6", "7", "8", "9"}

Range(s) == {s[k] : k \in 1..Len(s)}

\* what \s matches
WS == {" ", "\t", "\n"}

\* what \w matches
WordChars == Range(UpperLetters) \cup Range(LowerLetters) \cup Digits \cup {"_", "U+00E9", "U+00DF"}

\* Python's None where a string may stand
None == <<"None">>

\* an empty dict
EmptyDict == [k \in {} |-> <<>>]

\* the lower-case letter of each upper-case letter
LowerOf == [c \in Range(UpperLetters) |->
               LowerLetters[CHOOSE k \in 1..Len(UpperLetters) : UpperLetters[k] = c]]

\* str.lower()
Lower(s) == [k \in 1..Len(s) |-> IF s[k] \in DOMAIN LowerOf THEN LowerOf[s[k]] ELSE s[k]]

\* the first position from k on whose character is not in C (Len(s) + 1 if none)
SkipWhile(s, k, C) ==
    IF k > Len(s) THEN k
    ELSE CHOOSE j \in k..(Len(s) + 1) :
             /\ \A h \in k..(j - 1) : s[h] \in C
             /\ j = Len(s) + 1 \/ s[j] \notin C

\* the character at position k, or the empty string past the end
At(s, k) == IF k \in 1..Len(s) THEN s[k] ELSE ""

\* str.strip(): s without its leading and its trailing whitespace
Strip(s) ==
    LET r == SubSeq(s, SkipWhile(s, 1, WS), Len(s))
    IN  SubSeq(r, 1, CHOOSE j \in 0..Len(r) :
                         /\ \A h \in (j + 1)..Len(r) : r[h] \in WS
                         /\ j = 0 \/ r[j] \notin WS)

\* the first position where p occurs in s, 0 if it does not
Find(s, p) ==
    LET hits == {k \in 1..(Len(s) - Len(p) + 1) : SubSeq(s, k, k + Len(p) - 1) = p}
    IN  IF hits = {} THEN 0 ELSE CHOOSE k \in hits : \A h \in hits : k <= h

\* p in s
Contains(s, p) == Find(s, p) # 0

\* s.split(p)[0]
SplitFirst(s, p) ==
    LET k == Find(s, p) IN IF k = 0 THEN s ELSE SubSeq(s, 1, k - 1)

\* s.split(p, 1)[1], for a separator that occurs in s
After(s, p) == SubSeq(s, Find(s, p) + Len(p), Len(s))

RECURSIVE Split(_, _)
\* s.split(c) for a one-character separator
Split(s, c) ==
    LET k == Find(s, <<c>>)
    IN  IF k = 0 THEN <<s>>
        ELSE <<SubSeq(s, 1, k - 1)>> \o Split(SubSeq(s, k + 1, Len(s)), c)

\* the line without its final newline: where "$" matches and "." stops
NoNL(line) ==
    IF line # <<>> /\ line[Len(line)] = "\n" THEN SubSeq(line, 1, Len(line) - 1) ELSE line

-----------------------------------------------------------------------------
(* oplus/epm/field_descriptor.py: var_name_to_ref *)

RECURSIVE sub_not_python_var(_)
\* re.sub(not_python_var_pattern, "_", s): every run of non-word characters,
\* the leading one included, becomes one underscore
sub_not_python_var(s) ==
    IF s = <<>> THEN <<>>
    ELSE IF s[1] \in WordChars
         THEN <<s[1]>> \o sub_not_python_var(Tail(s))
         ELSE LET k == SkipWhile(s, 1, {c \in Range(s) : c \notin WordChars})
              IN  <<"_">> \o sub_not_python_var(SubSeq(s, k, Len(s)))

RECURSIVE sub_multiple_underscores(_)
\* re.sub(multiple_underscores_pattern, "_", s)
sub_multiple_underscores(s) ==
    IF s = <<>> THEN <<>>
    ELSE IF s[1] = "_"
         THEN <<"_">> \o sub_multiple_underscores(SubSeq(s, SkipWhile(s, 1, {"_"}), Len(s)))
         ELSE <<s[1]>> \o sub_multiple_underscores(Tail(s))

\* the derivation without its second substitution
var_name_to_ref_uncollapsed(name) == sub_not_python_var(Lower(name))

var_name_to_ref(name) == sub_multiple_underscores(sub_not_python_var(Lower(name)))

-----------------------------------------------------------------------------
(* Field descriptors and tag stores *)

\* FieldDescriptor.__init__ as Idd._parse calls it
FieldDescriptor(field_basic_type, name) ==
    [basic_type    |-> field_basic_type,
     name          |-> name,
     ref           |-> IF name = None THEN None ELSE var_name_to_ref(name),
     tags          |-> EmptyDict,
     detailed_type |-> None]

\* append_tag putting the value in front of the list
append_tag_in_front(tags, ref, value) ==
    LET known == IF ref \in DOMAIN tags THEN tags ELSE tags @@ (ref :> <<>>)
    IN  IF value = None THEN known
        ELSE [known EXCEPT ![ref] = <<value>> \o @]

\* FieldDescriptor.append_tag, on the tags dict; value None appends nothing
append_tag(tags, ref, value) ==
    LET known == IF ref \in DOMAIN tags THEN tags ELSE tags @@ (ref :> <<>>)
    IN  IF value = None THEN known
        ELSE [known EXCEPT ![ref] = Append(@, value)]

\* has_tag of the tag store
has_tag(tags, ref) == ref \in DOMAIN tags

\* get_tag of the tag store: the values of the tag, in order
get_tag(tags, ref) == IF ref \in DOMAIN tags THEN tags[ref] ELSE <<>>

-----------------------------------------------------------------------------
(* Record descriptors (TableDescriptor, the external collaborator) *)

\* TableDescriptor(table_name, group_name=group_name)
TableDescriptor(table_name, group) ==
    [table_name        |-> table_name,
     table_ref         |-> table_name,
     group_name        |-> group,
     field_descriptors |-> <<>>,
     tags              |-> EmptyDict,
     post_init_calls   |-> 0]

\* rd.add_tag(tag_ref, tag_value)
add_tag(r, tag_ref, tag_value) == [r EXCEPT !.tags = append_tag(@, tag_ref, tag_value)]

\* rd.append_field_descriptor(fieldd)
append_field_descriptor(r, f) == [r EXCEPT !.field_descriptors = Append(@, f)]

\* rd.post_init()
post_init(r) == [r EXCEPT !.post_init_calls = @ + 1]

-----------------------------------------------------------------------------
(* Idd._parse: the productions of the schema grammar *)

\* raw_line.split("!")[0]
tear_comment(raw) == SplitFirst(raw, <<"!">>)

\* re.search(r"^\s*$", line)
blank_match(line) == \A k \in 1..Len(line) : line[k] \in WS

\* re.search(r"^\\group (.+)$", line)
group_match(line) ==
    LET b == NoNL(line)
    IN  /\ Len(b) > Len(<<"\\","g","r","o","u","p"," ">>)
        /\ SubSeq(b, 1, Len(<<"\\","g","r","o","u","p"," ">>)) = <<"\\","g","r","o","u","p"," ">>

\* re.search(r"^\s*\\(.+)$", line)
tag_match(line) ==
    LET b == NoNL(line)
        j == SkipWhile(b, 1, WS)
    IN  At(b, j) = "\\" /\ j < Len(b)

\* match.group(1) of the tag production
tag_content(line) ==
    LET b == NoNL(line)
        j == SkipWhile(b, 1, WS)
    IN  SubSeq(b, j + 1, Len(b))

\* the class [\w\-\>\<:]
TagRefChars == WordChars \cup {"-", ">", "<", ":"}

\* re.search(r"^([\w\-\>\<:]+) (.*)$", content)
tag_ref_value_match(content) ==
    LET k == SkipWhile(content, 1, TagRefChars)
    IN  k > 1 /\ At(content, k) = " "

\* the tag name of a tag line's content
tag_ref_of(content) ==
    IF ~Contains(content, <<" ">>) THEN Strip(content)
    ELSE SubSeq(content, 1, SkipWhile(content, 1, TagRefChars) - 1)

\* the tag value of a tag line's content, None for a name-only tag
tag_value_of(content) ==
    IF ~Contains(content, <<" ">>) THEN None
    ELSE Strip(SubSeq(content, SkipWhile(content, 1, TagRefChars) + 1, Len(content)))

\* re.search(r"^\s*([AN])\d+\s*([;,])\s*\\[fF]ield (.*)$", line): the position
\* where group 3 starts, 0 when the line does not match
named_field_pos(line) ==
    LET b  == NoNL(line)
        j0 == SkipWhile(b, 1, WS)
        j1 == SkipWhile(b, j0 + 1, Digits)
        j2 == SkipWhile(b, j1, WS)
        j3 == SkipWhile(b, j2 + 1, WS)
    IN  IF /\ At(b, j0) \in {"A", "N"}
           /\ j1 > j0 + 1
           /\ At(b, j2) \in {";", ","}
           /\ At(b, j3) = "\\"
           /\ At(b, j3 + 1) \in {"f", "F"}
           /\ j3 + 1 + Len(<<"i","e","l","d"," ">>) <= Len(b)
           /\ SubSeq(b, j3 + 2, j3 + 1 + Len(<<"i","e","l","d"," ">>)) = <<"i","e","l","d"," ">>
        THEN j3 + 2 + Len(<<"i","e","l","d"," ">>)
        ELSE 0

\* match.group(1) of the named field production
named_field_type(line) == NoNL(line)[SkipWhile(NoNL(line), 1, WS)]

\* match.group(3).strip(), None when empty
named_field_name(line) ==
    LET b == NoNL(line)
        name == Strip(SubSeq(b, named_field_pos(line), Len(b)))
    IN  IF name = <<>> THEN None ELSE name

RECURSIVE skip_slots(_, _)
\* the position after the longest run of ([AN]\d+([;,])\s*) that starts at j
skip_slots(b, j) ==
    LET j1 == SkipWhile(b, j + 1, Digits)
    IN  IF At(b, j) \in {"A", "N"} /\ j1 > j + 1 /\ At(b, j1) \in {";", ","}
        THEN skip_slots(b, SkipWhile(b, j1 + 1, WS))
        ELSE j

\* re.search(r"^\s*([AN]\d+([;,])\s*)+\\note.*$", line)
unnamed_fields_match(line) ==
    LET b  == NoNL(line)
        j0 == SkipWhile(b, 1, WS)
        j1 == skip_slots(b, j0)
    IN  /\ j1 > j0
        /\ j1 + Len(<<"\\","n","o","t","e">>) - 1 <= Len(b)
        /\ SubSeq(b, j1, j1 + Len(<<"\\","n","o","t","e">>) - 1) = <<"\\","n","o","t","e">>

\* [s.strip() for s in line.split(r"\note")[0].strip()[:-1].split(",")]
fields_l(line) ==
    LET slots == Strip(SplitFirst(line, <<"\\","n","o","t","e">>))
        toks  == Split(SubSeq(slots, 1, Len(slots) - 1), ",")
    IN  [k \in 1..Len(toks) |-> Strip(toks[k])]

\* the class [\w:\-]
TableNameChars == WordChars \cup {":", "-"}

\* re.search(r"^\s*([\w:\-]+),\s*$", line)
rd_match(line) ==
    LET j0 == SkipWhile(line, 1, WS)
        j1 == SkipWhile(line, j0, TableNameChars)
    IN  j1 > j0 /\ At(line, j1) = "," /\ SkipWhile(line, j1 + 1, WS) = Len(line) + 1

\* match.group(1).strip() of the record descriptor production
rd_table_name(line) ==
    LET j0 == SkipWhile(line, 1, WS)
    IN  Strip(SubSeq(line, j0, SkipWhile(line, j0, TableNameChars) - 1))

\* the legacy test with its first literal only
special_match_lead_only(line) == Contains(line, <<"L","e","a","d"," ","I","n","p","u","t",";">>)

\* ("Lead Input;" in line) or ("Simulation Data;" in line)
special_match(line) == Contains(line, <<"L","e","a","d"," ","I","n","p","u","t",";">>) \/ Contains(line, <<"S","i","m","u","l","a","t","i","o","n"," ","D","a","t","a",";">>)

\* the branch of _parse's loop body that a raw line takes
production(raw) ==
    LET line == tear_comment(raw)
    IN  IF blank_match(line) THEN "blank"
        ELSE IF group_match(line) THEN "group"
        ELSE IF tag_match(line) THEN "tag"
        ELSE IF named_field_pos(line) # 0 THEN "named_field"
        ELSE IF unnamed_fields_match(line) THEN "unnamed_fields"
        ELSE IF rd_match(line) THEN "rd"
        ELSE IF special_match(line) THEN "special"
        ELSE "not_parsed"

-----------------------------------------------------------------------------
(* oplus/epm/field_descriptor.py: detailed_type *)

\* the outcome of a detailed_type read that raises IndexError (a 'type' tag without value)
IndexError == <<"IndexError">>

\* the cascade with its first two tests exchanged: the 'type' tag wins over 'reference'
resolve_type_first(tags, basic_type) ==
    IF <<"t","y","p","e">> \in DOMAIN tags
    THEN IF tags[<<"t","y","p","e">>] = <<>> THEN IndexError ELSE Lower(tags[<<"t","y","p","e">>][1])
    ELSE IF (<<"r","e","f","e","r","e","n","c","e">> \in DOMAIN tags) \/ (<<"r","e","f","e","r","e","n","c","e","-","c","l","a","s","s","-","n","a","m","e">> \in DOMAIN tags) THEN <<"r","e","f","e","r","e","n","c","e">>
    ELSE IF <<"k","e","y">> \in DOMAIN tags THEN <<"c","h","o","i","c","e">>
    ELSE IF <<"o","b","j","e","c","t","-","l","i","s","t">> \in DOMAIN tags THEN <<"o","b","j","e","c","t","-","l","i","s","t">>
    ELSE IF <<"e","x","t","e","r","n","a","l","-","l","i","s","t">> \in DOMAIN tags THEN <<"e","x","t","e","r","n","a","l","-","l","i","s","t">>
    ELSE IF basic_type = "A" THEN <<"a","l","p","h","a">>
    ELSE <<"r","e","a","l">>

\* the cascade of the detailed_type property, for a descriptor that has no cached type
resolve_detailed_type(tags, basic_type) ==
    IF (<<"r","e","f","e","r","e","n","c","e">> \in DOMAIN tags) \/ (<<"r","e","f","e","r","e","n","c","e","-","c","l","a","s","s","-","n","a","m","e">> \in DOMAIN tags) THEN <<"r","e","f","e","r","e","n","c","e">>
    ELSE IF <<"t","y","p","e">> \in DOMAIN tags
         THEN IF tags[<<"t","y","p","e">>] = <<>> THEN IndexError ELSE Lower(tags[<<"t","y","p","e">>][1])
    ELSE IF <<"k","e","y">> \in DOMAIN tags THEN <<"c","h","o","i","c","e">>
    ELSE IF <<"o","b","j","e","c","t","-","l","i","s","t">> \in DOMAIN tags THEN <<"o","b","j","e","c","t","-","l","i","s","t">>
    ELSE IF <<"e","x","t","e","r","n","a","l","-","l","i","s","t">> \in DOMAIN tags THEN <<"e","x","t","e","r","n","a","l","-","l","i","s","t">>
    ELSE IF basic_type = "A" THEN <<"a","l","p","h","a">>
    ELSE <<"r","e","a","l">>

\* the property computed anew at every read
detailed_type_uncached(f) == resolve_detailed_type(f.tags, f.basic_type)

\* what reading the detailed_type property yields: the cached type if there is one
detailed_type(f) ==
    IF f.detailed_type # None THEN f.detailed_type
    ELSE resolve_detailed_type(f.tags, f.basic_type)

\* self._detailed_type after the property was read
cached_detailed_type(f) ==
    IF detailed_type(f) = IndexError THEN f.detailed_type ELSE detailed_type(f)

-----------------------------------------------------------------------------
(* Python values: None, str, int, float (the fraction n/d, d a power of ten) and list *)

PyNone == [t |-> "NoneType", s |-> <<>>, n |-> 0, d |-> 1]

PyStr(s) == [t |-> "str", s |-> s, n |-> 0, d |-> 1]

PyInt(n) == [t |-> "int", s |-> <<>>, n |-> n, d |-> 1]

PyFloat(n, d) == [t |-> "float", s |-> <<>>, n |-> n, d |-> d]

PyList == [t |-> "list", s |-> <<>>, n |-> 0, d |-> 1]

DigitChars == <<"0","1","2","3","4","5","6","7","8","9">>

\* digits, single underscores allowed between them
IsDigitGroup(s) ==
    /\ s # <<>>
    /\ \A k \in 1..Len(s) : s[k] \in Digits \cup {"_"}
    /\ s[1] # "_" /\ s[Len(s)] # "_"
    /\ \A k \in 1..(Len(s) - 1) : ~(s[k] = "_" /\ s[k + 1] = "_")

RECURSIVE DigitsValue(_, _)
\* the number the digits of s denote, after the digits that denote acc
DigitsValue(s, acc) ==
    IF s = <<>> THEN acc
    ELSE IF s[1] = "_" THEN DigitsValue(Tail(s), acc)
    ELSE DigitsValue(Tail(s),
                     10 * acc + (CHOOSE k \in 1..Len(DigitChars) : DigitChars[k] = s[1]) - 1)

\* the digits of s without underscores and leading zeros
Significant(s) ==
    LET d == SelectSeq(s, LAMBDA c : c \in Digits)
    IN  SubSeq(d, SkipWhile(d, 1, {"0"}), Len(d))

HasSign(s) == s # <<>> /\ s[1] \in {"+", "-"}

Unsigned(s) == IF HasSign(s) THEN Tail(s) ELSE s

Signed(s, n) == IF HasSign(s) /\ s[1] = "-" THEN 0 - n ELSE n

\* int() that loses the sign
IntValue_unsigned(s) == DigitsValue(Significant(Unsigned(s)), 0)

IntValue(s) == Signed(s, DigitsValue(Significant(Unsigned(s)), 0))

RECURSIVE Pow10(_)
Pow10(k) == IF k = 0 THEN 1 ELSE 10 * Pow10(k - 1)

\* the texts float() accepts, among those without exponent, "inf" and "nan"
IsFloatLiteral(s) ==
    LET u   == Unsigned(s)
        dot == Find(u, <<".">>)
        ip  == IF dot = 0 THEN u ELSE SubSeq(u, 1, dot - 1)
        fp  == IF dot = 0 THEN <<>> ELSE SubSeq(u, dot + 1, Len(u))
    IN  /\ ip # <<>> \/ fp # <<>>
        /\ ip = <<>> \/ IsDigitGroup(ip)
        /\ fp = <<>> \/ IsDigitGroup(fp)

RECURSIVE ReduceFraction(_, _)
ReduceFraction(n, d) ==
    IF d > 1 /\ n % 10 = 0 THEN ReduceFraction(n \div 10, d \div 10) ELSE PyFloat(n, d)

FloatValue(s) ==
    LET u   == Unsigned(s)
        dot == Find(u, <<".">>)
        ip  == IF dot = 0 THEN u ELSE SubSeq(u, 1, dot - 1)
        fp  == IF dot = 0 THEN <<>> ELSE SelectSeq(SubSeq(u, dot + 1, Len(u)), LAMBDA c : c \in Digits)
        r   == ReduceFraction(DigitsValue(Significant(ip \o fp), 0), Pow10(Len(fp)))
    IN  PyFloat(Signed(s, r.n), r.d)

\* int(value) succeeds
int_ok(v) == (v.t \in {"int", "float"}) \/ (v.t = "str" /\ IsDigitGroup(Unsigned(v.s)))

\* int(value): a float is truncated towards zero
int_of(v) ==
    IF v.t = "int" THEN v
    ELSE IF v.t = "float" THEN PyInt(IF v.n >= 0 THEN v.n \div v.d ELSE 0 - ((0 - v.n) \div v.d))
    ELSE PyInt(IntValue(v.s))

\* float(value) succeeds
float_ok(v) == (v.t \in {"int", "float"}) \/ (v.t = "str" /\ IsFloatLiteral(v.s))

\* float(value)
float_of(v) ==
    IF v.t = "int" THEN PyFloat(v.n, 1)
    ELSE IF v.t = "float" THEN v
    ELSE FloatValue(v.s)

-----------------------------------------------------------------------------
(* oplus/epm/field_descriptor.py: deserialize *)

\* the limit of the "check not too big" test
MaxFieldLen == 100

\* re.sub(spaces_pattern, lambda x: " ", s): every run of whitespace becomes one space
sub_spaces(s) ==
    LET marked == [k \in 1..Len(s) |->
                      IF s[k] \notin WS THEN s[k]
                      ELSE IF k > 1 /\ s[k - 1] \in WS THEN "" ELSE " "]
    IN  SelectSeq(marked, LAMBDA c : c # "")

RECURSIVE unidecode(_)
\* unidecode.unidecode: an ASCII character is kept, e-acute gives "e", sharp s gives "ss"
unidecode(s) ==
    IF s = <<>> THEN <<>>
    ELSE (IF s[1] = "U+00E9" THEN <<"e">>
          ELSE IF s[1] = "U+00DF" THEN <<"s", "s">>
          ELSE <<s[1]>>) \o unidecode(Tail(s))

\* the "prepare if string" block up to the emptiness test
collapsed(s) == sub_spaces(Strip(s))

\* the "prepare if string" block after the emptiness test
prepared(tags, s) ==
    IF <<"r","e","t","a","i","n","c","a","s","e">> \in DOMAIN tags THEN unidecode(s) ELSE Lower(unidecode(s))

\* the sentinel test with "useweatherfile" forgotten
is_sentinel_short(v) == v.t = "str" /\ v.s \in { <<"a","u","t","o","c","a","l","c","u","l","a","t","e">>, <<"a","u","t","o","s","i","z","e">> }

\* value in ("autocalculate", "autosize", "useweatherfile")
is_sentinel(v) == v.t = "str" /\ v.s \in { <<"a","u","t","o","c","a","l","c","u","l","a","t","e">>, <<"a","u","t","o","s","i","z","e">>, <<"u","s","e","w","e","a","t","h","e","r","f","i","l","e">> }

\* what a call returns or raises: a plain value (wrap "None"), a RecordHook or a Link
Returned(wrap, refs, v) == [raised |-> "None", wrap |-> wrap, refs |-> refs, val |-> v]

Raised(type) == [raised |-> type, wrap |-> "None", refs |-> <<>>, val |-> PyNone]

NoFdRet == [op |-> "None", arg |-> PyNone, out |-> Returned("None", <<>>, PyNone)]

\* "manage numeric types": the detailed type dt is integer or real
typed_numeric(dt, v) ==
    IF is_sentinel(v) THEN Returned("None", <<>>, v)
    ELSE IF dt = <<"i","n","t","e","g","e","r">>
    THEN IF int_ok(v) THEN Returned("None", <<>>, int_of(v))
         ELSE Raised("FieldValidationError")
    ELSE IF float_ok(v) THEN Returned("None", <<>>, float_of(v))
         ELSE Raised("FieldValidationError")

\* the string kinds without the isinstance test
typed_string_unchecked(v) == Returned("None", <<>>, v)

\* "manage simple string types"
typed_string(v) ==
    IF v.t # "str" THEN Raised("FieldValidationError")
    ELSE Returned("None", <<>>, v)

\* the hook built from self.tags["reference"]: KeyError without a 'reference' tag
typed_reference_indexed(tags, v) ==
    IF <<"r","e","f","e","r","e","n","c","e">> \notin DOMAIN tags THEN Raised("KeyError")
    ELSE Returned("RecordHook", tags[<<"r","e","f","e","r","e","n","c","e">>], v)

\* "manage hooks": RecordHook(self.tags.get("reference", []), value)
typed_reference(tags, v) ==
    Returned("RecordHook", IF <<"r","e","f","e","r","e","n","c","e">> \in DOMAIN tags THEN tags[<<"r","e","f","e","r","e","n","c","e">>] ELSE <<>>, v)

\* the link built from the last 'object-list' value instead of the first
typed_object_list_last(tags, v) ==
    IF <<"o","b","j","e","c","t","-","l","i","s","t">> \notin DOMAIN tags THEN Raised("KeyError")
    ELSE IF tags[<<"o","b","j","e","c","t","-","l","i","s","t">>] = <<>> THEN Raised("IndexError")
    ELSE Returned("Link", <<tags[<<"o","b","j","e","c","t","-","l","i","s","t">>][Len(tags[<<"o","b","j","e","c","t","-","l","i","s","t">>])]>>, v)

\* "manage links": Link(self.tags["object-list"][0], value)
typed_object_list(tags, v) ==
    IF <<"o","b","j","e","c","t","-","l","i","s","t">> \notin DOMAIN tags THEN Raised("KeyError")
    ELSE IF tags[<<"o","b","j","e","c","t","-","l","i","s","t">>] = <<>> THEN Raised("IndexError")
    ELSE Returned("Link", <<tags[<<"o","b","j","e","c","t","-","l","i","s","t">>][1]>>, v)

\* deserialize from "manage numeric types" on: the value is prepared, the type is dt
typed(f, dt, v) ==
    IF dt = IndexError THEN Raised("IndexError")
    ELSE IF dt \in {<<"i","n","t","e","g","e","r">>, <<"r","e","a","l">>} THEN typed_numeric(dt, v)
    ELSE IF dt \in {<<"a","l","p","h","a">>, <<"c","h","o","i","c","e">>, <<"n","o","d","e">>, <<"e","x","t","e","r","n","a","l","-","l","i","s","t">>} THEN typed_string(v)
    ELSE IF dt = <<"r","e","f","e","r","e","n","c","e">> THEN typed_reference(f.tags, v)
    ELSE IF dt = <<"o","b","j","e","c","t","-","l","i","s","t">> THEN typed_object_list(f.tags, v)
    ELSE Raised("RuntimeError")

\* whether deserialize(value) leaves before it reads self.detailed_type
returns_early(f, value) ==
    \/ value.t = "NoneType"
    \/ value.t = "str" /\ collapsed(value.s) = <<>>
    \/ value.t = "str" /\ Len(prepared(f.tags, collapsed(value.s))) >= MaxFieldLen

\* deserialize without the "see if still not empty" test
deserialize_without_empty_test(f, value) ==
    IF value.t = "NoneType" THEN Returned("None", <<>>, PyNone)
    ELSE IF value.t = "str"
    THEN IF Len(prepared(f.tags, collapsed(value.s))) >= MaxFieldLen
         THEN Raised("FieldValidationError")
         ELSE typed(f, detailed_type(f), PyStr(prepared(f.tags, collapsed(value.s))))
    ELSE typed(f, detailed_type(f), value)

\* deserialize with the length test off by one: > instead of >=
deserialize_limit_exclusive(f, value) ==
    IF value.t = "NoneType" THEN Returned("None", <<>>, PyNone)
    ELSE IF value.t = "str"
    THEN IF collapsed(value.s) = <<>> THEN Returned("None", <<>>, PyNone)
         ELSE IF Len(prepared(f.tags, collapsed(value.s))) > MaxFieldLen
         THEN Raised("FieldValidationError")
         ELSE typed(f, detailed_type(f), PyStr(prepared(f.tags, collapsed(value.s))))
    ELSE typed(f, detailed_type(f), value)

\* FieldDescriptor.deserialize: what it returns or raises
deserialize(f, value) ==
    IF value.t = "NoneType" THEN Returned("None", <<>>, PyNone)
    ELSE IF value.t = "str"
    THEN IF collapsed(value.s) = <<>> THEN Returned("None", <<>>, PyNone)
         ELSE IF Len(prepared(f.tags, collapsed(value.s))) >= MaxFieldLen
         THEN Raised("FieldValidationError")
         ELSE typed(f, detailed_type(f), PyStr(prepared(f.tags, collapsed(value.s))))
    ELSE typed(f, detailed_type(f), value)

\* deserialize caching a detailed type taken from the basic type alone
after_deserialize_basic_cache(f, value) ==
    [f EXCEPT !.detailed_type = IF f.basic_type = "A" THEN <<"a","l","p","h","a">> ELSE <<"r","e","a","l">>]

\* the descriptor after deserialize(value): only the cached detailed type may change
after_deserialize(f, value) ==
    IF returns_early(f, value) THEN f
    ELSE [f EXCEPT !.detailed_type = cached_detailed_type(f)]


-----------------------------------------------------------------------------
(* oplus/standard_output/parse_eso.py: parse, before its first row *)

\* parse(file_like) is called: nothing is read yet, no local is bound
parse_start(file) ==
    /\ eso_file = file
    /\ eso_pc = "version"
    /\ eso_i = 0
    /\ eso_error = "None"
    /\ annual_code = None
    /\ manage_timesteps = FALSE
    /\ variables_info = <<>>
    /\ environments = <<>>
    /\ environments_data = EmptyDict
    /\ current_data = None
    /\ last_timestep_end = None
    /\ environments_dfs = EmptyDict
-----------------------------------------------------------------------------
(* The schema lines and the names the model draws from *)

Lines ==
    { <<" "," ","!"," ","a"," ","c","o","m","m","e","n","t","\n">>,
      <<"\\","g","r","o","u","p"," ","H","\n">>,
      <<"Z","o","n","e",",","\n">>,
      <<"z","o","n","e",",","\n">>,
      <<"A","1",","," ","\\","f","i","e","l","d"," ","N","m","\n">>,
      <<"N","1",",","A","2",";","\\","n","o","t","e"," ","x","\n">>,
      <<"\\","r","e","f","e","r","e","n","c","e"," ","X","\n">>,
      <<" "," ","\\","o","b","j","e","c","t","-","l","i","s","t"," ","x","\n">>,
      <<"L","e","a","d"," ","I","n","p","u","t",";","\n">>,
      <<"b","a","d"," ","l","i","n","e","\n">> }

\* the lines a schema file may start with: none, a record with one field that
\* has two 'object-list' values, or three records with a 'reference' tag each,
\* the third under the name of the first, and a legacy line after them
Heads ==
    { <<>>,
      << <<"\\","g","r","o","u","p"," ","G","\n">>, <<"W","a","l","l",",","\n">>, <<"A","1",","," ","\\","f","i","e","l","d"," ","N","m","\n">>, <<"\\","o","b","j","e","c","t","-","l","i","s","t"," ","x","\n">>, <<"\\","o","b","j","e","c","t","-","l","i","s","t"," ","w","\n">> >>,
      << <<"\\","g","r","o","u","p"," ","G","\n">>, <<"Z","o","n","e",",","\n">>, <<"A","1",","," ","\\","f","i","e","l","d"," ","N","m","\n">>, <<"\\","r","e","f","e","r","e","n","c","e"," ","X","\n">>,
         <<"R","o","o","f",",","\n">>, <<"A","1",";","N","2",";","\\","n","o","t","e"," ","x","\n">>, <<"\\","r","e","f","e","r","e","n","c","e"," ","X","\n">>,
         <<"Z","o","n","e",",","\n">>, <<"A","1",","," ","\\","f","i","e","l","d"," ","N","m","\n">>, <<"\\","r","e","f","e","r","e","n","c","e"," ","X","\n">>, <<"S","i","m","u","l","a","t","i","o","n"," ","D","a","t","a",";","\n">> >> }

\* the lines of each production, in the order _parse tests them
LinesOf ==
    [p \in {"blank", "group", "tag", "named_field", "unnamed_fields", "rd", "special", "not_parsed"} |->
        {raw \in Lines \cup UNION {Range(h) : h \in Heads} : production(raw) = p}]

\* the arguments of the link lookups
LinkNames == { <<"X">>, <<"Y","y">>, <<"z","z">> }

\* the arguments of get_record_descriptor
RecordNames == { <<"Z","O","N","E">>, <<"W","a","l","l">>, <<"R","o","o","f">> }

-----------------------------------------------------------------------------
(* Idd.__init__ *)

NoError == [type |-> "None", msg |-> "", lineno |-> 0, raw |-> <<>>]

NoRet == [op |-> "None", arg |-> <<>>, raised |-> "None", val |-> <<>>]

\* the keys of an ordered dict
Keys(od) == {od[k][1] : k \in 1..Len(od)}

\* od[key]
Get(od, key) == od[CHOOSE k \in 1..Len(od) : od[k][1] = key][2]

\* od[key] = value: a new key goes last, a known key keeps its place
Put(od, key, value) ==
    IF key \in Keys(od)
    THEN [k \in 1..Len(od) |-> IF od[k][1] = key THEN <<key, value>> ELSE od[k]]
    ELSE Append(od, <<key, value>>)

\* an exception that __init__ swallows: the caller gets the object all the same
Raise_swallowed(type, msg, lineno, raw) ==
    /\ pc' = "failed"
    /\ error' = [type |-> type, msg |-> msg, lineno |-> lineno, raw |-> raw]
    /\ idd' = TRUE

\* an exception leaves __init__: the caller gets no object
Raise(type, msg, lineno, raw) ==
    /\ pc' = "failed"
    /\ error' = [type |-> type, msg |-> msg, lineno |-> lineno, raw |-> raw]
    /\ idd' = FALSE

\* __init__ returns: the caller holds the catalogue
Return ==
    /\ pc' = "done"
    /\ idd' = TRUE
    /\ error' = error

\* _parse goes on with the next line
Continue == UNCHANGED <<pc, error, idd>>

\* the for loop of _parse hands out the next line
ReadLine(raw) ==
    /\ pc = "parse"
    /\ IF i + 1 < Len(head)
       THEN raw = head[i + 2]
       ELSE raw \in Lines /\ i + 1 < Len(head) + MaxLines
    /\ i' = i + 1
    /\ raw_line' = raw

Init ==
    /\ head \in Heads
    /\ pc = "parse"
    /\ i = -1
    /\ raw_line = <<>>
    /\ group_name = None
    /\ rd = 0
    /\ fieldd = <<0, 0>>
    /\ rds = <<>>
    /\ table_descriptors = <<>>
    /\ pointed_rd_linkds_d = EmptyDict
    /\ pointing_rd_linkds_d = EmptyDict
    /\ pi = 0
    /\ error = NoError
    /\ idd = FALSE
    /\ ret = NoRet
    /\ fd = FieldDescriptor("A", None)
    /\ fd_ret = NoFdRet
    /\ parse_start(<<>>)

\* blank line
ParseBlank ==
    \E raw \in LinesOf["blank"] :
        /\ ReadLine(raw)
        /\ Continue
        /\ UNCHANGED <<head, group_name, rd, fieldd, rds, table_descriptors,
                       pointed_rd_linkds_d, pointing_rd_linkds_d, pi, ret, fd_vars, eso_vars>>

\* group comment
ParseGroup ==
    \E raw \in LinesOf["group"] :
        /\ ReadLine(raw)
        /\ group_name' = Strip(After(NoNL(tear_comment(raw)), <<"\\","g","r","o","u","p"," ">>))
        /\ rd' = 0
        /\ fieldd' = <<0, 0>>
        /\ Continue
        /\ UNCHANGED <<head, rds, table_descriptors, pointed_rd_linkds_d,
                       pointing_rd_linkds_d, pi, ret, fd_vars, eso_vars>>

\* every tag stored on the record descriptor, a field being open or not
store_tag_on_record(rs, r, f, tag_ref, tag_value) ==
    [rs EXCEPT ![r] = add_tag(@, tag_ref, tag_value)]

\* "store": the tag goes to the record descriptor r when no field is open
\* (f is None), to the open field f otherwise
store_tag(rs, r, f, tag_ref, tag_value) ==
    IF f = <<0, 0>>
    THEN [rs EXCEPT ![r] = add_tag(@, tag_ref, tag_value)]
    ELSE [rs EXCEPT ![f[1]].field_descriptors[f[2]].tags = append_tag(@, tag_ref, tag_value)]

\* tag
ParseTag ==
    \E raw \in LinesOf["tag"] :
        LET content   == tag_content(tear_comment(raw))
            tag_ref   == tag_ref_of(content)
            tag_value == tag_value_of(content)
        IN  /\ ReadLine(raw)
            /\ IF Contains(content, <<" ">>) /\ ~tag_ref_value_match(content)
               THEN /\ Raise("AttributeError", "'NoneType' object has no attribute 'group'", 0, <<>>)
                    /\ UNCHANGED rds
               ELSE IF fieldd = <<0, 0>> /\ rd = 0
               THEN /\ Raise("AttributeError", "'NoneType' object has no attribute 'add_tag'", 0, <<>>)
                    /\ UNCHANGED rds
               ELSE /\ rds' = store_tag(rds, rd, fieldd, tag_ref, tag_value)
                    /\ Continue
            /\ UNCHANGED <<head, group_name, rd, fieldd, table_descriptors, pointed_rd_linkds_d,
                           pointing_rd_linkds_d, pi, ret, fd_vars, eso_vars>>

\* named field descriptor
ParseNamedField ==
    \E raw \in LinesOf["named_field"] :
        LET line == tear_comment(raw)
            new  == FieldDescriptor(named_field_type(line), named_field_name(line))
        IN  /\ ReadLine(raw)
            /\ IF rd = 0
               THEN /\ Raise("AttributeError",
                             "'NoneType' object has no attribute 'append_field_descriptor'", 0, <<>>)
                    /\ UNCHANGED <<rds, fieldd>>
               ELSE /\ rds' = [rds EXCEPT ![rd] = append_field_descriptor(@, new)]
                    /\ fieldd' = <<rd, Len(rds[rd].field_descriptors) + 1>>
                    /\ Continue
            /\ UNCHANGED <<head, group_name, rd, table_descriptors, pointed_rd_linkds_d,
                           pointing_rd_linkds_d, pi, ret, fd_vars, eso_vars>>

RECURSIVE append_unnamed(_, _)
\* the for loop over fields_l: one nameless descriptor per token
append_unnamed(r, toks) ==
    IF toks = <<>> THEN r
    ELSE append_unnamed(append_field_descriptor(r, FieldDescriptor(toks[1][1], None)), Tail(toks))

\* unnamed field descriptors
ParseUnnamedFields ==
    \E raw \in LinesOf["unnamed_fields"] :
        LET toks == fields_l(tear_comment(raw))
        IN  /\ ReadLine(raw)
            /\ IF rd = 0
               THEN /\ Raise("AttributeError",
                             "'NoneType' object has no attribute 'append_field_descriptor'", 0, <<>>)
                    /\ UNCHANGED <<rds, fieldd>>
               ELSE /\ rds' = [rds EXCEPT ![rd] = append_unnamed(@, toks)]
                    /\ fieldd' = <<rd, Len(rds[rd].field_descriptors) + Len(toks)>>
                    /\ Continue
            /\ UNCHANGED <<head, group_name, rd, table_descriptors, pointed_rd_linkds_d,
                           pointing_rd_linkds_d, pi, ret, fd_vars, eso_vars>>

\* the group assertion compiled away
has_group_name_unchecked(g) == TRUE

\* the test of the group assertion: group_name is not None
has_group_name(g) == g # None

\* rd: record descriptor
ParseRecordDescriptor ==
    \E raw \in LinesOf["rd"] :
        LET table_name == rd_table_name(tear_comment(raw))
            new        == TableDescriptor(table_name, group_name)
        IN  /\ ReadLine(raw)
            /\ IF ~has_group_name(group_name)
               THEN /\ Raise("AssertionError", "No group name.", 0, <<>>)
                    /\ UNCHANGED <<rd, fieldd, rds, table_descriptors>>
               ELSE IF new.table_ref \in Keys(table_descriptors)
               THEN /\ Raise("AssertionError", "Record descriptor already registered.", 0, <<>>)
                    /\ rds' = Append(rds, new)
                    /\ rd' = Len(rds) + 1
                    /\ UNCHANGED <<fieldd, table_descriptors>>
               ELSE /\ rds' = Append(rds, new)
                    /\ rd' = Len(rds) + 1
                    /\ table_descriptors' =
                           Put(table_descriptors, Lower(new.table_ref), Len(rds) + 1)
                    /\ fieldd' = <<0, 0>>
                    /\ Continue
            /\ UNCHANGED <<head, group_name, pointed_rd_linkds_d, pointing_rd_linkds_d, pi, ret, fd_vars, eso_vars>>

\* non parsed line - special records
ParseSpecial ==
    \E raw \in LinesOf["special"] :
        /\ ReadLine(raw)
        /\ rd' = 0
        /\ fieldd' = <<0, 0>>
        /\ Continue
        /\ UNCHANGED <<head, group_name, rds, table_descriptors, pointed_rd_linkds_d,
                       pointing_rd_linkds_d, pi, ret, fd_vars, eso_vars>>

\* a line that no production matches is skipped
not_parsed_skipped(lineno, raw) == Continue

\* what _parse does with a line that no production matches
not_parsed(lineno, raw) == Raise("RuntimeError", "Line %i not parsed: '%s'.", lineno, raw)

\* raise RuntimeError("Line %i not parsed: '%s'." % (i+1, raw_line))
ParseNotParsed ==
    \E raw \in LinesOf["not_parsed"] :
        /\ ReadLine(raw)
        /\ not_parsed(i' + 1, raw)
        /\ UNCHANGED <<head, group_name, rd, fieldd, rds, table_descriptors, pointed_rd_linkds_d,
                       pointing_rd_linkds_d, pi, ret, fd_vars, eso_vars>>

\* the file ends and _link starts at once: _post_init is left out
ParseReturn_to_link ==
    /\ pc = "parse"
    /\ i + 1 >= Len(head)
    /\ pc' = "link"
    /\ pi' = 0
    /\ UNCHANGED <<head, i, raw_line, group_name, rd, fieldd, rds, table_descriptors,
                   pointed_rd_linkds_d, pointing_rd_linkds_d, error, idd, ret, fd_vars, eso_vars>>

\* the file ends: _parse returns and _post_init starts
ParseReturn ==
    /\ pc = "parse"
    /\ i + 1 >= Len(head)
    /\ pc' = "post_init"
    /\ pi' = 0
    /\ UNCHANGED <<head, i, raw_line, group_name, rd, fieldd, rds, table_descriptors,
                   pointed_rd_linkds_d, pointing_rd_linkds_d, error, idd, ret, fd_vars, eso_vars>>

\* _post_init: rd.post_init() on the next descriptor of self._table_descriptors.values()
PostInit ==
    /\ pc = "post_init"
    /\ pi < Len(table_descriptors)
    /\ rds' = [rds EXCEPT ![table_descriptors[pi + 1][2]] = post_init(@)]
    /\ pi' = pi + 1
    /\ UNCHANGED <<head, pc, i, raw_line, group_name, rd, fieldd, table_descriptors,
                   pointed_rd_linkds_d, pointing_rd_linkds_d, error, idd, ret, fd_vars, eso_vars>>

\* _post_init: rd.post_init() raises
PostInitRaise ==
    /\ pc = "post_init"
    /\ pi < Len(table_descriptors)
    /\ Raise("Exception", "post_init", 0, <<>>)
    /\ UNCHANGED <<head, i, raw_line, group_name, rd, fieldd, rds, table_descriptors,
                   pointed_rd_linkds_d, pointing_rd_linkds_d, pi, ret, fd_vars, eso_vars>>

\* _post_init returns and _link starts
PostInitReturn ==
    /\ pc = "post_init"
    /\ pi = Len(table_descriptors)
    /\ pc' = "link"
    /\ UNCHANGED <<head, i, raw_line, group_name, rd, fieldd, rds, table_descriptors,
                   pointed_rd_linkds_d, pointing_rd_linkds_d, pi, error, idd, ret, fd_vars, eso_vars>>

RECURSIVE Flatten(_)
Flatten(ss) == IF ss = <<>> THEN <<>> ELSE ss[1] \o Flatten(Tail(ss))

\* the bucket name as it was declared, not lower-cased
ref_name_as_declared(ref_name) == ref_name

\* the name a link bucket is stored under: ref_name.lower()
ref_lower_name(ref_name) == Lower(ref_name)

\* the appends of a link pass that leaves out the 'object-list' values of a
\* field that has a 'reference' tag
field_links_by_kind(r, k, tag) ==
    LET tags == rds[r].field_descriptors[k].tags
    IN  IF has_tag(tags, tag) /\ ~(tag = <<"o","b","j","e","c","t","-","l","i","s","t">> /\ has_tag(tags, <<"r","e","f","e","r","e","n","c","e">>))
        THEN [n \in 1..Len(get_tag(tags, tag)) |->
                 <<ref_lower_name(get_tag(tags, tag)[n]), <<r, k - 1>>>>]
        ELSE <<>>

\* the appends _link makes for one field and one tag: <<bucket, (rd, i)>> per tag value
field_links(r, k, tag) ==
    LET tags == rds[r].field_descriptors[k].tags
    IN  IF has_tag(tags, tag)
        THEN [n \in 1..Len(get_tag(tags, tag)) |->
                 <<ref_lower_name(get_tag(tags, tag)[n]), <<r, k - 1>>>>]
        ELSE <<>>

\* the appends _link makes for one record descriptor and one tag
record_links(r, tag) ==
    Flatten([k \in 1..Len(rds[r].field_descriptors) |-> field_links(r, k, tag)])

\* the appends _link makes for one tag, in the order of self._table_descriptors.values()
all_links(tag) ==
    Flatten([t \in 1..Len(table_descriptors) |-> record_links(table_descriptors[t][2], tag)])

RECURSIVE link_into(_, _)
\* the appends applied to a table: a bucket is created when its name is new
link_into(d, appends) ==
    IF appends = <<>> THEN d
    ELSE LET name  == appends[1][1]
             known == IF name \in DOMAIN d THEN d ELSE d @@ (name :> <<>>)
         IN  link_into([known EXCEPT ![name] = Append(@, appends[1][2])], Tail(appends))

\* _link, then __init__ returns
Link ==
    /\ pc = "link"
    /\ pointed_rd_linkds_d' = link_into(pointed_rd_linkds_d, all_links(<<"r","e","f","e","r","e","n","c","e">>))
    /\ pointing_rd_linkds_d' = link_into(pointing_rd_linkds_d, all_links(<<"o","b","j","e","c","t","-","l","i","s","t">>))
    /\ Return
    /\ UNCHANGED <<head, i, raw_line, group_name, rd, fieldd, rds, table_descriptors, pi, ret, fd_vars, eso_vars>>

-----------------------------------------------------------------------------
(* The lookup API *)

\* what a link lookup returns from table d
links(d, link_insensitive_name) ==
    LET link_lower_name == Lower(link_insensitive_name)
    IN  IF link_lower_name \notin DOMAIN d THEN <<>> ELSE d[link_lower_name]

\* pointed_links that creates the bucket it misses
pointed_links_setdefault(link_insensitive_name) ==
    LET link_lower_name == Lower(link_insensitive_name)
    IN  /\ idd
        /\ ret' = [op     |-> "pointed_links",
                   arg    |-> link_insensitive_name,
                   raised |-> "None",
                   val    |-> links(pointed_rd_linkds_d, link_insensitive_name)]
        /\ pointed_rd_linkds_d' =
               IF link_lower_name \in DOMAIN pointed_rd_linkds_d THEN pointed_rd_linkds_d
               ELSE pointed_rd_linkds_d @@ (link_lower_name :> <<>>)
        /\ UNCHANGED <<head, pc, i, raw_line, group_name, rd, fieldd, rds, table_descriptors,
                       pointing_rd_linkds_d, pi, error, idd, fd_vars, eso_vars>>

\* Idd.pointed_links
pointed_links(link_insensitive_name) ==
        /\ idd
        /\ ret' = [op     |-> "pointed_links",
                   arg    |-> link_insensitive_name,
                   raised |-> "None",
                   val    |-> links(pointed_rd_linkds_d, link_insensitive_name)]
        /\ UNCHANGED <<head, pc, i, raw_line, group_name, rd, fieldd, rds, table_descriptors,
                       pointed_rd_linkds_d, pointing_rd_linkds_d, pi, error, idd, fd_vars, eso_vars>>

\* Idd.pointing_links
pointing_links(link_insensitive_name) ==
        /\ idd
        /\ ret' = [op     |-> "pointing_links",
                   arg    |-> link_insensitive_name,
                   raised |-> "None",
                   val    |-> links(pointing_rd_linkds_d, link_insensitive_name)]
        /\ UNCHANGED <<head, pc, i, raw_line, group_name, rd, fieldd, rds, table_descriptors,
                       pointed_rd_linkds_d, pointing_rd_linkds_d, pi, error, idd, fd_vars, eso_vars>>

\* get_record_descriptor without the lower-casing of its argument
get_record_descriptor_exact(rd_ref) ==
    /\ idd
    /\ ret' = IF rd_ref \in Keys(table_descriptors)
              THEN [op |-> "get_record_descriptor", arg |-> rd_ref, raised |-> "None",
                    val |-> <<Get(table_descriptors, rd_ref)>>]
              ELSE [op |-> "get_record_descriptor", arg |-> rd_ref, raised |-> "KeyError",
                    val |-> <<>>]
    /\ UNCHANGED <<head, pc, i, raw_line, group_name, rd, fieldd, rds, table_descriptors,
                   pointed_rd_linkds_d, pointing_rd_linkds_d, pi, error, idd, fd_vars, eso_vars>>

\* Idd.get_record_descriptor: the descriptor is returned as <<its position in rds>>
get_record_descriptor(rd_ref) ==
    /\ idd
    /\ ret' = IF Lower(rd_ref) \in Keys(table_descriptors)
              THEN [op |-> "get_record_descriptor", arg |-> rd_ref, raised |-> "None",
                    val |-> <<Get(table_descriptors, Lower(rd_ref))>>]
              ELSE [op |-> "get_record_descriptor", arg |-> rd_ref, raised |-> "KeyError",
                    val |-> <<>>]
    /\ UNCHANGED <<head, pc, i, raw_line, group_name, rd, fieldd, rds, table_descriptors,
                   pointed_rd_linkds_d, pointing_rd_linkds_d, pi, error, idd, fd_vars, eso_vars>>

Next ==
    \/ ParseBlank
    \/ ParseGroup
    \/ ParseTag
    \/ ParseNamedField
    \/ ParseUnnamedFields
    \/ ParseRecordDescriptor
    \/ ParseSpecial
    \/ ParseNotParsed
    \/ ParseReturn
    \/ PostInit
    \/ PostInitRaise
    \/ PostInitReturn
    \/ Link
    \/ \E name \in LinkNames : pointed_links(name)
    \/ \E name \in LinkNames : pointing_links(name)
    \/ \E name \in RecordNames : get_record_descriptor(name)

Spec == Init /\ [][Next]_vars

-----------------------------------------------------------------------------
(* The stand-alone field descriptor: FieldDescriptor(...), then calls on it *)

\* number of distinct tag names put on the field descriptor
MaxTags == 2

\* number of values appended to one tag name
MaxValues == 1

\* the (ref, value) arguments of append_tag
TagInputs ==
    { <<<<"r","e","f","e","r","e","n","c","e">>, <<"X">>>>,
      <<<<"r","e","f","e","r","e","n","c","e">>, <<"y","y">>>>,
      <<<<"r","e","f","e","r","e","n","c","e","-","c","l","a","s","s","-","n","a","m","e">>, None>>,
      <<<<"t","y","p","e">>, <<"I","n","t","e","g","e","r">>>>,
      <<<<"t","y","p","e">>, <<"n","o","d","e">>>>,
      <<<<"t","y","p","e">>, <<"F","o","o">>>>,
      <<<<"t","y","p","e">>, None>>,
      <<<<"k","e","y">>, None>>,
      <<<<"o","b","j","e","c","t","-","l","i","s","t">>, <<"x">>>>,
      <<<<"o","b","j","e","c","t","-","l","i","s","t">>, <<"w">>>>,
      <<<<"e","x","t","e","r","n","a","l","-","l","i","s","t">>, None>>,
      <<<<"r","e","t","a","i","n","c","a","s","e">>, None>> }

\* the arguments of deserialize
Values ==
    { PyNone,
      PyStr(<<>>),
      PyStr(<<" ","\t"," ">>),
      PyStr(<<" "," ","A","b"," ","\t"," ","c"," ">>),
      PyStr(<<"A","u","t","o","S","i","z","e">>),
      PyStr(<<"1","2">>),
      PyStr(<<"-","7">>),
      PyStr(<<" ","1",".","5","0">>),
      PyStr(<<"c", "U+00E9">>),
      PyInt(5),
      PyList }

InitFD ==
    /\ head = <<>>
    /\ pc = "parse"
    /\ i = -1
    /\ raw_line = <<>>
    /\ group_name = None
    /\ rd = 0
    /\ fieldd = <<0, 0>>
    /\ rds = <<>>
    /\ table_descriptors = <<>>
    /\ pointed_rd_linkds_d = EmptyDict
    /\ pointing_rd_linkds_d = EmptyDict
    /\ pi = 0
    /\ error = NoError
    /\ idd = FALSE
    /\ ret = NoRet
    /\ \E t \in {"A", "N"} : fd = FieldDescriptor(t, None)
    /\ fd_ret = NoFdRet
    /\ parse_start(<<>>)

\* fd.append_tag(ref, value)
AppendTag ==
    \E a \in TagInputs :
        /\ Cardinality(DOMAIN fd.tags \cup {a[1]}) <= MaxTags
        /\ a[2] # None => Len(get_tag(fd.tags, a[1])) < MaxValues
        /\ fd' = [fd EXCEPT !.tags = append_tag(@, a[1], a[2])]
        /\ fd_ret' = [op |-> "append_tag", arg |-> PyNone, out |-> Returned("None", <<>>, PyNone)]
        /\ UNCHANGED <<idd_vars, eso_vars>>

\* fd.detailed_type
ReadDetailedType ==
    /\ fd' = [fd EXCEPT !.detailed_type = cached_detailed_type(fd)]
    /\ fd_ret' = [op  |-> "detailed_type",
                  arg |-> PyNone,
                  out |-> IF detailed_type(fd) = IndexError THEN Raised("IndexError")
                          ELSE Returned("None", <<>>, PyStr(detailed_type(fd)))]
    /\ UNCHANGED <<idd_vars, eso_vars>>

\* fd.deserialize(value)
Deserialize ==
    \E value \in Values :
        /\ fd' = after_deserialize(fd, value)
        /\ fd_ret' = [op |-> "deserialize", arg |-> value, out |-> deserialize(fd, value)]
        /\ UNCHANGED <<idd_vars, eso_vars>>

NextFD ==
    \/ AppendTag
    \/ ReadDetailedType
    \/ Deserialize

SpecFD == InitFD /\ [][NextFD]_vars

-----------------------------------------------------------------------------
(* deserialize on field descriptors of every kind *)

\* the integers n of deserialize(str(n)) are -MaxInt..MaxInt
MaxInt == 11

RECURSIVE str_nat(_)
\* str(n), n >= 0
str_nat(n) ==
    IF n < 10 THEN <<DigitChars[n + 1]>>
    ELSE str_nat(n \div 10) \o <<DigitChars[(n % 10) + 1]>>

\* str(n)
str_int(n) == IF n < 0 THEN <<"-">> \o str_nat(0 - n) ELSE str_nat(n)

\* c * n
Rep(c, n) == [k \in 1..n |-> c]

\* the tags of the field descriptors, as the append_tag calls that put them
FieldTags ==
    { <<>>,
      << <<<<"t","y","p","e">>, <<"I","n","t","e","g","e","r">>>> >>,
      << <<<<"t","y","p","e">>, <<"R","e","a","l">>>> >>,
      << <<<<"t","y","p","e">>, <<"a","l","p","h","a">>>> >>,
      << <<<<"t","y","p","e">>, <<"C","h","o","i","c","e">>>> >>,
      << <<<<"t","y","p","e">>, <<"n","o","d","e">>>> >>,
      << <<<<"t","y","p","e">>, <<"F","o","o">>>> >>,
      << <<<<"k","e","y">>, <<"k","1">>>>, <<<<"k","e","y">>, <<"k","2">>>> >>,
      << <<<<"e","x","t","e","r","n","a","l","-","l","i","s","t">>, None>> >>,
      << <<<<"r","e","f","e","r","e","n","c","e">>, <<"X">>>>, <<<<"r","e","f","e","r","e","n","c","e">>, <<"y","y">>>> >>,
      << <<<<"r","e","f","e","r","e","n","c","e","-","c","l","a","s","s","-","n","a","m","e">>, None>> >>,
      << <<<<"t","y","p","e">>, <<"i","n","t","e","g","e","r">>>>, <<<<"r","e","f","e","r","e","n","c","e">>, <<"X">>>> >>,
      << <<<<"o","b","j","e","c","t","-","l","i","s","t">>, <<"x">>>>, <<<<"o","b","j","e","c","t","-","l","i","s","t">>, <<"w">>>> >>,
      << <<<<"t","y","p","e">>, <<"i","n","t","e","g","e","r">>>>, <<<<"r","e","t","a","i","n","c","a","s","e">>, None>> >>,
      << <<<<"r","e","t","a","i","n","c","a","s","e">>, None>> >>,
      << <<<<"t","y","p","e">>, <<"o","b","j","e","c","t","-","l","i","s","t">>>> >>,
      << <<<<"o","b","j","e","c","t","-","l","i","s","t">>, None>> >> }

RECURSIVE with_tags(_, _)
\* the tags after the append_tag calls of as
with_tags(tags, as) ==
    IF as = <<>> THEN tags
    ELSE with_tags(append_tag(tags, as[1][1], as[1][2]), Tail(as))

\* the texts given to deserialize that are as long as the limit allows, or longer
LongTexts ==
    { Rep("0", MaxFieldLen - 2) \o <<"7">>,
      Rep("0", MaxFieldLen - 1) \o <<"7">>,
      <<" ","\t">> \o Rep("0", MaxFieldLen - 2) \o <<"7"," "," ">>,
      Rep("a", 49) \o <<" "," ","\t"," ">> \o Rep("a", MaxFieldLen - 50),
      Rep("a", 50) \o <<" "," ">> \o Rep("a", MaxFieldLen - 50),
      Rep("a", MaxFieldLen - 2) \o <<"U+00DF">>,
      Rep("A", MaxFieldLen - 1),
      Rep("A", MaxFieldLen) }

\* the other texts given to deserialize
ShortTexts ==
    { <<>>, <<" "," ">>, <<"a","u","t","o","c","a","l","c","u","l","a","t","e">>, <<"a","u","t","o","s","i","z","e">>, <<"u","s","e","w","e","a","t","h","e","r","f","i","l","e">>, <<" ","A","u","t","o","S","i","z","e">>, <<"a","b","c">>, <<"A","b"," "," ","C">>,
      <<"1",".","5">>, <<"-","2",".","5","0">>, <<"-">>, <<"1"," ","2">>, <<"+","4">>, <<"0","0","7">>, <<"1","_","0">>, <<"1","2","a">> }

\* the arguments of deserialize
DSValues ==
    {PyStr(str_int(n)) : n \in (0 - MaxInt)..MaxInt}
        \cup {PyStr(s) : s \in LongTexts \cup ShortTexts}
        \cup {PyNone, PyInt(5), PyInt(0 - 3), PyFloat(35, 10), PyList}

InitDS ==
    /\ head = <<>>
    /\ pc = "parse"
    /\ i = -1
    /\ raw_line = <<>>
    /\ group_name = None
    /\ rd = 0
    /\ fieldd = <<0, 0>>
    /\ rds = <<>>
    /\ table_descriptors = <<>>
    /\ pointed_rd_linkds_d = EmptyDict
    /\ pointing_rd_linkds_d = EmptyDict
    /\ pi = 0
    /\ error = NoError
    /\ idd = FALSE
    /\ ret = NoRet
    /\ \E t \in {"A", "N"} : \E as \in FieldTags :
           fd = [FieldDescriptor(t, None) EXCEPT !.tags = with_tags(@, as)]
    /\ fd_ret = NoFdRet
    /\ parse_start(<<>>)

\* fd.deserialize(value)
DeserializeDS ==
    \E value \in DSValues :
        /\ fd' = after_deserialize(fd, value)
        /\ fd_ret' = [op |-> "deserialize", arg |-> value, out |-> deserialize(fd, value)]
        /\ UNCHANGED <<idd_vars, eso_vars>>

NextDS == DeserializeDS

SpecDS == InitDS /\ [][NextDS]_vars

-----------------------------------------------------------------------------
(* The derivation of a ref from a name, on field descriptors built with a name *)

MaxNameLen == 3

\* the names a field-declaration line may give: texts of a letter of each case, a digit,
\* an underscore, a blank and a punctuation mark, and four longer names
RefNames ==
    UNION {[1..n -> {"a", "Z", "1", "_", " ", "!"}] : n \in 0..MaxNameLen}
        \cup { <<"Z","o","n","e"," "," ","N","a","m","e","!","!">>, <<"z","o","n","e","_","n","a","m","e">>, <<"!","!","Z","o","n","e"," ","N","a","m","e">>, <<"Z","o","n","e"," ","N","a","m","e">> }

\* FieldDescriptor(table_descriptor, index, field_basic_type, name=name)
InitRef ==
    /\ head = <<>>
    /\ pc = "parse"
    /\ i = -1
    /\ raw_line = <<>>
    /\ group_name = None
    /\ rd = 0
    /\ fieldd = <<0, 0>>
    /\ rds = <<>>
    /\ table_descriptors = <<>>
    /\ pointed_rd_linkds_d = EmptyDict
    /\ pointing_rd_linkds_d = EmptyDict
    /\ pi = 0
    /\ error = NoError
    /\ idd = FALSE
    /\ ret = NoRet
    /\ \E t \in {"A", "N"} : \E name \in RefNames : fd = FieldDescriptor(t, name)
    /\ fd_ret = NoFdRet
    /\ parse_start(<<>>)

\* var_name_to_ref(name), called on the field's name or on its ref
DeriveRef ==
    \E name \in {fd.name, fd.ref} :
        /\ fd_ret' = [op  |-> "var_name_to_ref",
                      arg |-> PyStr(name),
                      out |-> Returned("None", <<>>, PyStr(var_name_to_ref(name)))]
        /\ UNCHANGED fd
        /\ UNCHANGED <<idd_vars, eso_vars>>

NextRef == DeriveRef

SpecRef == InitRef /\ [][NextRef]_vars

-----------------------------------------------------------------------------
(* The tag store of a field descriptor, filled by append_tag calls alone *)

\* number of values the tag store holds in all
MaxStored == 3

\* fd.append_tag(ref, value), the arguments kept with the call
AppendTagCall ==
    \E a \in TagInputs :
        /\ Cardinality(DOMAIN fd.tags \cup {a[1]}) <= MaxTags
        /\ a[2] # None =>
               Cardinality(UNION {{<<r, k>> : k \in 1..Len(fd.tags[r])} : r \in DOMAIN fd.tags})
                   < MaxStored
        /\ fd' = [fd EXCEPT !.tags = append_tag(@, a[1], a[2])]
        /\ fd_ret' = [op  |-> "append_tag",
                      arg |-> [ref |-> a[1], value |-> a[2]],
                      out |-> Returned("None", <<>>, PyNone)]
        /\ UNCHANGED <<idd_vars, eso_vars>>

NextTags == AppendTagCall

SpecTags == InitFD /\ [][NextTags]_vars


-----------------------------------------------------------------------------
(* oplus/standard_output/parse_eso.py: the rows of an output file *)

\* the free rows a file may go on with after its first rows
MaxRows == 4

RECURSIVE SplitOn(_, _)
\* s.split(p)
SplitOn(s, p) ==
    IF Find(s, p) = 0 THEN <<s>>
    ELSE <<SplitFirst(s, p)>> \o SplitOn(After(s, p), p)

RECURSIVE sub_comment_brackets(_)
\* re.sub(comment_brackets_pattern, "", s)
sub_comment_brackets(s) ==
    LET starts == {k \in 1..Len(s) :
                      /\ s[k] \in WS
                      /\ At(s, k + 1) = "["
                      /\ SkipWhile(s, k + 2, WordChars \cup {","}) > k + 2
                      /\ At(s, SkipWhile(s, k + 2, WordChars \cup {","})) = "]"}
    IN  IF starts = {} THEN s
        ELSE LET k == CHOOSE h \in starts : \A g \in starts : h <= g
                 j == SkipWhile(s, k + 2, WordChars \cup {","})
             IN  SubSeq(s, 1, k - 1) \o sub_comment_brackets(SubSeq(s, j + 1, Len(s)))

\* the frequencies
Frequency == [TIMESTEP |-> <<"T","i","m","e","S","t","e","p">>, HOURLY |-> <<"H","o","u","r","l","y">>, DAILY |-> <<"D","a","i","l","y">>,
              MONTHLY |-> <<"M","o","n","t","h","l","y">>, ANNUAL |-> <<"A","n","n","u","a","l">>, RUN_PERIOD |-> <<"R","u","n","P","e","r","i","o","d">>]

\* the frequencies in the order parse makes their tables
Frequencies == <<Frequency.TIMESTEP, Frequency.HOURLY, Frequency.DAILY, Frequency.MONTHLY,
                 Frequency.ANNUAL, Frequency.RUN_PERIOD>>

\* the columns of the instants, one name for the columns that are filled together
InstantColumns == [timestep |-> <<"t","i","m","e","s","t","e","p">>, hourly |-> <<"h","o","u","r","l","y">>, daily |-> <<"d","a","i","l","y">>,
                   monthly |-> <<"m","o","n","t","h","l","y">>, annual |-> <<"a","n","n","u","a","l","_","y","e","a","r">>]

\* what a file starts with: the version row, the data dictionary, some rows of data
EsoFiles ==
    { << <<"P","r","o","g","r","a","m"," ","V","e","r","s","i","o","n",",","E","n","e","r","g","y","P","l","u","s",","," ","V","e","r","s","i","o","n"," ","9",".","0",".","1","-","b","b","7",","," ","Y","M","D","=","2","0","1","9",".","0","1",".","0","1","\n">>,
         <<"7",",","1",",","E","n","v",",","T"," ","[","C","]"," ","!","E","a","c","h"," ","C","a","l","l","\n">>,
         <<"8",",","1",",","E","n","v",",","T"," ","[","C","]"," ","!","H","o","u","r","l","y","\n">>,
         <<"E","n","d"," ","o","f"," ","D","a","t","a"," ","D","i","c","t","i","o","n","a","r","y","\n">>,
         <<"1",",","A",",","0",",","0",",","0",",","0","\n">>,
         <<"2",",","1",",","1",",","1",",","0",",","1",",","0",".","0","0",",","3","0",".","0","0",",","M","o","n","\n">> >>,
      << <<"P","r","o","g","r","a","m"," ","V","e","r","s","i","o","n",",","E","n","e","r","g","y","P","l","u","s",","," ","V","e","r","s","i","o","n"," ","9",".","0",".","1","-","b","b","7",","," ","Y","M","D","=","2","0","1","9",".","0","1",".","0","1","\n">>,
         <<"1",",","5",",","E","n","v","i","r","o","n","m","e","n","t"," ","T","i","t","l","e","[","]",",","L","a","t","i","t","u","d","e","[","d","e","g","]","\n">>,
         <<"9",",","7",",","E","n","v",",","T"," ","[","C","]"," ","!","D","a","i","l","y"," ","[","V","a","l","u","e",",","M","i","n",",","H","o","u","r",",","M","i","n","u","t","e",",","M","a","x",",","H","o","u","r",",","M","i","n","u","t","e","]","\n">>,
         <<"1","0",",","1",",","E","n","v",",","T"," ","[","C","]"," ","!","R","u","n","P","e","r","i","o","d","\n">>,
         <<"1","1",",","1",",","E","n","v",",","T"," ","[","C","]"," ","!","A","n","n","u","a","l","\n">>,
         <<"E","n","d"," ","o","f"," ","D","a","t","a"," ","D","i","c","t","i","o","n","a","r","y","\n">>,
         <<"1",",","A",",","0",",","0",",","0",",","0","\n">>,
         <<"3",",","1",",","1",",","1",",","0",",","M","o","n","\n">>,
         <<"4",",","1",",","1","\n">>,
         <<"5",",","1","\n">>,
         <<"6",",","2","0","1","9","\n">>,
         <<"1","1",",","3",".","5","\n">>,
         <<"1","0",",","2",".","5",",","1",",","1","\n">> >>,
      << <<"P","r","o","g","r","a","m"," ","V","e","r","s","i","o","n",",","E","n","e","r","g","y","P","l","u","s",","," ","V","e","r","s","i","o","n"," ","8",".","9",".","0","-","4","0","1","0","1",","," ","Y","M","D","=","2","0","1","8",".","0","1",".","0","1","\n">>,
         <<"1","2",",","1",",","E","n","v",",","T"," ","[","C","]"," ","!","T","i","m","e","S","t","e","p","\n">>,
         <<"E","n","d"," ","o","f"," ","D","a","t","a"," ","D","i","c","t","i","o","n","a","r","y","\n">> >>,
      << <<"P","r","o","g","r","a","m"," ","V","e","r","s","i","o","n",",","E","n","e","r","g","y","P","l","u","s",","," ","9",".","0",".","1","\n">> >> }

\* the rows of data a file may go on with
EsoRows ==
    { <<"1",",","A",",","0",",","0",",","0",",","0","\n">>,
      <<"1",",","B",",","0",",","0",",","0",",","0","\n">>,
      <<"2",",","1",",","1",",","1",",","0",",","1",",","3","0",".","0","0",",","6","0",".","0","0",",","M","o","n","\n">>,
      <<"2",",","1",",","1",",","1",",","0",",","1",",","0",".","0","0",",","6","0",".","0","0",",","M","o","n","\n">>,
      <<"7",",","2","1",".","5","\n">> }


-----------------------------------------------------------------------------
(* oplus/standard_output/parse_eso.py: parse *)

\* next(file_like): the next row the run wrote, or one more row of data
NextRow(row) ==
    /\ IF eso_i < Len(eso_file)
       THEN row = eso_file[eso_i + 1] /\ eso_file' = eso_file
       ELSE /\ eso_pc = "data"
            /\ \E f \in EsoFiles : /\ Len(f) <= Len(eso_file)
                                   /\ SubSeq(eso_file, 1, Len(f)) = f
                                   /\ Len(eso_file) < Len(f) + MaxRows
            /\ row \in EsoRows
            /\ eso_file' = Append(eso_file, row)
    /\ eso_i' = eso_i + 1

\* an exception leaves parse: the caller gets no result
EsoRaise(type) ==
    /\ eso_pc' = "failed"
    /\ eso_error' = type
    /\ environments_dfs' = EmptyDict

\* the first row: the version decides the code of the annual rows
ReadVersion ==
    \E row \in {At(eso_file, eso_i + 1)} :
        /\ eso_pc = "version"
        /\ NextRow(row)
        /\ LET row_l == Split(row, ",")
               s     == Strip(row_l[3])
               dash  == CHOOSE k \in 0..Len(s) :
                            /\ k = 0 \/ s[k] = "-"
                            /\ \A h \in (k + 1)..Len(s) : s[h] # "-"
               build == SubSeq(s, dash + 1, Len(s))
               \* group(1) of the version pattern on the third piece, <<>> if no match
               g     == IF Find(s, <<"V","e","r","s","i","o","n">>) = 1 /\ dash > 0
                        THEN SubSeq(s, SkipWhile(s, Len(<<"V","e","r","s","i","o","n">>) + 1, WS), dash - 1)
                        ELSE <<>>
               digits(a, b) == a <= b /\ \A h \in a..b : g[h] \in Digits
               match == /\ g # <<>>
                        /\ build # <<>> /\ \A h \in 1..Len(build) : build[h] \in WordChars
                        /\ \E p, q \in 1..Len(g) :
                               /\ p < q
                               /\ digits(1, p - 1) /\ digits(p + 1, q - 1)
                               /\ digits(q + 1, Len(g))
                               /\ g[p] # "\n" /\ g[q] # "\n"
               nums  == Split(g, ".")
           IN  IF Len(row_l) < 3 THEN EsoRaise("IndexError") /\ UNCHANGED annual_code
               ELSE IF ~match THEN EsoRaise("AttributeError") /\ UNCHANGED annual_code
               ELSE IF \E k \in 1..Len(nums) : ~int_ok(PyStr(Strip(nums[k])))
               THEN EsoRaise("ValueError") /\ UNCHANGED annual_code
               ELSE /\ annual_code' = IF IntValue(Strip(nums[1])) < 9 THEN None ELSE <<"6">>
                    /\ eso_pc' = "dictionary"
                    /\ UNCHANGED <<eso_error, environments_dfs>>
        /\ UNCHANGED <<manage_timesteps, variables_info, environments, environments_data,
                       current_data, last_timestep_end, idd_vars, fd_vars>>

\* a row of the data dictionary
ReadDictionary ==
    \E raw \in {At(eso_file, eso_i + 1)} :
        /\ eso_pc = "dictionary"
        /\ NextRow(raw)
        /\ LET row      == Strip(raw)
               code     == SplitFirst(row, <<",">>)
               vars_num == SplitFirst(After(row, <<",">>), <<",">>)
               other    == After(After(row, <<",">>), <<",">>)
               parts    == SplitOn(other, <<" ","!">>)
               content  == parts[1]
               names    == Split(content, ",")
               max_data_dict_info_code_int == IF annual_code = None THEN 5 ELSE IntValue(annual_code)
               comment  == IF IntValue(Strip(vars_num)) # 1 THEN sub_comment_brackets(content)
                           ELSE parts[2]
               frequency == SplitOn(comment, <<" ",",">>)[1]
               stay     == UNCHANGED <<eso_pc, eso_error, environments_dfs>>
           IN  IF row = <<"E","n","d"," ","o","f"," ","D","a","t","a"," ","D","i","c","t","i","o","n","a","r","y">>
               THEN /\ eso_pc' = "data"
                    /\ UNCHANGED <<eso_error, environments_dfs, manage_timesteps, variables_info>>
               ELSE IF Len(Split(row, ",")) < 3 \/ ~int_ok(PyStr(Strip(vars_num)))
                       \/ ~int_ok(PyStr(Strip(code)))
               THEN EsoRaise("ValueError") /\ UNCHANGED <<manage_timesteps, variables_info>>
               ELSE IF IntValue(Strip(code)) <= max_data_dict_info_code_int
               THEN stay /\ UNCHANGED <<manage_timesteps, variables_info>>
               ELSE IF Len(parts) # 2 \/ Len(names) # 2 \/ Len(SplitOn(names[2], <<" ","[">>)) # 2
               THEN EsoRaise("ValueError") /\ UNCHANGED <<manage_timesteps, variables_info>>
               ELSE /\ stay
                    /\ manage_timesteps' = (manage_timesteps \/ frequency = <<"E","a","c","h"," ","C","a","l","l">>)
                    /\ variables_info' =
                           Put(variables_info, code,
                               IF frequency = <<"E","a","c","h"," ","C","a","l","l">> THEN Frequency.TIMESTEP ELSE frequency)
        /\ UNCHANGED <<annual_code, environments, environments_data, current_data,
                       last_timestep_end, idd_vars, fd_vars>>

\* the rows the next read of the data may return
DataRows == IF eso_i < Len(eso_file) THEN {eso_file[eso_i + 1]} ELSE EsoRows

\* code, other = row.split(",", 1) of a row of data
code_other(raw) == <<SplitFirst(Strip(raw), <<",">>), After(Strip(raw), <<",">>)>>

\* the row has no comma, or a piece of it is missing or is no number
row_error(raw, pieces, ints, floats, texts) ==
    IF ~Contains(Strip(raw), <<",">>) THEN "ValueError"
    ELSE IF \E k \in ints \cup floats \cup texts : k > Len(pieces) THEN "IndexError"
    ELSE IF \/ \E k \in ints : ~int_ok(PyStr(Strip(pieces[k])))
            \/ \E k \in floats : ~float_ok(PyStr(Strip(pieces[k])))
    THEN "ValueError"
    ELSE "None"

\* current_data[column].append(x)
data_append(column, x) ==
    IF current_data = None
    THEN EsoRaise("TypeError") /\ UNCHANGED environments_data
    ELSE IF column \notin DOMAIN environments_data[current_data]
    THEN EsoRaise("KeyError") /\ UNCHANGED environments_data
    ELSE /\ environments_data' =
                [environments_data EXCEPT ![current_data][column] = Append(@, x)]
         /\ UNCHANGED <<eso_pc, eso_error, environments_dfs>>

\* code 1: a new environment
ReadEnvironment ==
    \E raw \in DataRows :
        /\ eso_pc = "data"
        /\ Strip(raw) # <<"E","n","d"," ","o","f"," ","D","a","t","a">>
        /\ code_other(raw)[1] = <<"1">>
        /\ NextRow(raw)
        /\ LET other == Split(code_other(raw)[2], ",")
               err   == row_error(raw, other, {}, 2..5, {1})
               title == other[1]
               \* the columns of the new environment, all empty
               data  == [k \in (IF manage_timesteps THEN {InstantColumns.timestep} ELSE {})
                                \cup {InstantColumns.hourly, InstantColumns.daily,
                                      InstantColumns.monthly, InstantColumns.annual}
                                \cup Keys(variables_info) |-> <<>>]
           IN  IF err # "None"
               THEN EsoRaise(err) /\ UNCHANGED <<environments, environments_data, current_data>>
               ELSE /\ environments' = Put(environments, title, title)
                    /\ environments_data' =
                           [t \in DOMAIN environments_data \cup {title} |->
                               IF t = title THEN data ELSE environments_data[t]]
                    /\ current_data' = title
                    /\ UNCHANGED <<eso_pc, eso_error, environments_dfs>>
        /\ UNCHANGED <<annual_code, manage_timesteps, variables_info, last_timestep_end,
                       idd_vars, fd_vars>>

\* the instant of a code-2 row; its minutes are read only when timesteps are managed
timestep_instant(other, managed) ==
    [month      |-> IntValue(Strip(other[2])),
     day        |-> IntValue(Strip(other[3])),
     hour       |-> IntValue(Strip(other[5])) - 1,
     minute     |-> IF managed THEN int_of(FloatValue(Strip(other[6]))).n ELSE 0,
     end_minute |-> IF managed THEN int_of(FloatValue(Strip(other[7]))).n ELSE 0,
     dst        |-> IntValue(Strip(other[4])),
     day_type   |-> other[8]]

is_hourly_instant_by_start(last, t) ==
    last # None /\ last = <<t.month, t.day, t.hour, t.minute>>

\* code 2 with timesteps managed: the row ends where the last timestep instant ended
is_hourly_instant(last, t) ==
    last # None /\ last = <<t.month, t.day, t.hour, t.end_minute>>

\* code 2: timestep (and hourly) data
ReadInstant ==
    \E raw \in DataRows :
        /\ eso_pc = "data"
        /\ Strip(raw) # <<"E","n","d"," ","o","f"," ","D","a","t","a">>
        /\ code_other(raw)[1] = <<"2">>
        /\ NextRow(raw)
        /\ LET other == Split(code_other(raw)[2], ",")
               err   == row_error(raw, other, {2, 3, 4, 5},
                                  IF manage_timesteps THEN {6, 7} ELSE {}, {8})
               t     == timestep_instant(other, manage_timesteps)
           IN  IF err # "None"
               THEN EsoRaise(err) /\ UNCHANGED <<environments_data, last_timestep_end>>
               ELSE IF ~manage_timesteps \/ is_hourly_instant(last_timestep_end, t)
               THEN /\ data_append(InstantColumns.hourly,
                                   <<t.month, t.day, t.hour, t.dst, t.day_type>>)
                    /\ UNCHANGED last_timestep_end
               ELSE /\ data_append(InstantColumns.timestep,
                                   <<t.month, t.day, t.hour, t.minute, t.dst, t.day_type>>)
                    /\ last_timestep_end' =
                           IF current_data = None THEN last_timestep_end
                           ELSE <<t.month, t.day, t.hour, t.end_minute>>
        /\ UNCHANGED <<annual_code, manage_timesteps, variables_info, environments,
                       current_data, idd_vars, fd_vars>>

\* code 3: daily; code 4: monthly; code 5: run period, nothing to do; the annual code: the
\* year
ReadPeriod ==
    \E raw \in DataRows :
        /\ eso_pc = "data"
        /\ Strip(raw) # <<"E","n","d"," ","o","f"," ","D","a","t","a">>
        /\ code_other(raw)[1] \in {<<"3">>, <<"4">>, <<"5">>, annual_code}
        /\ NextRow(raw)
        /\ LET code  == code_other(raw)[1]
               other == Split(code_other(raw)[2], ",")
               err   == IF code = <<"3">> THEN row_error(raw, other, {2, 3, 4}, {}, {5})
                        ELSE IF code = <<"4">> THEN row_error(raw, other, {2}, {}, {})
                        ELSE IF code = <<"5">> THEN row_error(raw, other, {}, {}, {})
                        ELSE IF /\ Contains(Strip(raw), <<",">>)
                                /\ int_ok(PyStr(Strip(code_other(raw)[2])))
                        THEN "None"
                        ELSE "ValueError"
           IN  IF err # "None" THEN EsoRaise(err) /\ UNCHANGED environments_data
               ELSE IF code = <<"3">>
               THEN data_append(InstantColumns.daily,
                                <<IntValue(Strip(other[2])), IntValue(Strip(other[3])), other[5],
                                  IntValue(Strip(other[4]))>>)
               ELSE IF code = <<"4">>
               THEN data_append(InstantColumns.monthly, IntValue(Strip(other[2])))
               ELSE IF code = <<"5">>
               THEN UNCHANGED <<eso_pc, eso_error, environments_dfs, environments_data>>
               ELSE data_append(InstantColumns.annual, IntValue(Strip(code_other(raw)[2])))
        /\ UNCHANGED <<annual_code, manage_timesteps, variables_info, environments,
                       current_data, last_timestep_end, idd_vars, fd_vars>>

\* any other code: a value of the variable with that code, without its minimum and maximum
ReadValue ==
    \E raw \in DataRows :
        /\ eso_pc = "data"
        /\ Strip(raw) # <<"E","n","d"," ","o","f"," ","D","a","t","a">>
        /\ code_other(raw)[1] \notin {<<"1">>, <<"2">>, <<"3">>, <<"4">>, <<"5">>, annual_code}
        /\ NextRow(raw)
        /\ LET other == code_other(raw)[2]
               first == Split(other, ",")[1]
           IN  IF ~Contains(Strip(raw), <<",">>)
               THEN EsoRaise("ValueError") /\ UNCHANGED environments_data
               ELSE IF float_ok(PyStr(Strip(other)))
               THEN data_append(code_other(raw)[1], FloatValue(Strip(other)))
               ELSE IF float_ok(PyStr(Strip(first)))
               THEN data_append(code_other(raw)[1], FloatValue(Strip(first)))
               ELSE EsoRaise("ValueError") /\ UNCHANGED environments_data
        /\ UNCHANGED <<annual_code, manage_timesteps, variables_info, environments,
                       current_data, last_timestep_end, idd_vars, fd_vars>>

\* the codes of the declared variables of one frequency, in the order of the dictionary
frequency_codes(info, frequency) ==
    LET of == SelectSeq(info, LAMBDA v : v[2] = frequency)
    IN  [k \in 1..Len(of) |-> of[k][1]]

\* pd.DataFrame.from_dict(dict((k, env_data[k]) for k in keys))
from_dict(env_data, keys) ==
    IF \E k \in 1..Len(keys) : keys[k] \notin DOMAIN env_data THEN [raised |-> "KeyError"]
    ELSE IF \E k, h \in 1..Len(keys) : Len(env_data[keys[k]]) # Len(env_data[keys[h]])
    THEN [raised |-> "ValueError"]
    ELSE [raised |-> "None",
          df |-> [is_none |-> FALSE, columns |-> [c \in Range(keys) |-> env_data[c]]]]

\* the run period: the table is stored under ANNUAL
run_period_tables(env_dfs, env_data, info) ==
    LET codes == frequency_codes(info, Frequency.RUN_PERIOD)
        made  == from_dict(env_data, codes)
    IN  IF codes = <<>> THEN [raised |-> "None", dfs |-> env_dfs]
        ELSE IF made.raised # "None" THEN [raised |-> made.raised, dfs |-> env_dfs]
        ELSE [raised |-> "None", dfs |-> [env_dfs EXCEPT ![Frequency.ANNUAL] = made.df]]

RECURSIVE frequency_tables(_, _, _, _)
\* the tables of one environment for the first five frequencies from the k-th on, then the
\* run period
frequency_tables(k, env_dfs, env_data, info) ==
    LET columns == <<InstantColumns.timestep, InstantColumns.hourly, InstantColumns.daily,
                     InstantColumns.monthly, InstantColumns.annual>>
        codes   == frequency_codes(info, Frequencies[k])
        made    == from_dict(env_data, <<columns[k]>> \o codes)
    IN  IF k > 5 THEN run_period_tables(env_dfs, env_data, info)
        ELSE IF codes = <<>> THEN frequency_tables(k + 1, env_dfs, env_data, info)
        ELSE IF made.raised # "None" THEN [raised |-> made.raised, dfs |-> env_dfs]
        ELSE frequency_tables(k + 1, [env_dfs EXCEPT ![Frequencies[k]] = made.df],
                              env_data, info)

\* the end of the data: the tables of every environment are made and parse returns
ReadEndOfData ==
    \E raw \in {<<"E","n","d"," ","o","f"," ","D","a","t","a","\n">>} :
        /\ eso_pc = "data"
        /\ eso_i = Len(eso_file)
        /\ eso_file' = Append(eso_file, raw)
        /\ eso_i' = eso_i + 1
        /\ LET env_dfs == [f \in Range(Frequencies) |-> [is_none |-> TRUE, columns |-> EmptyDict]]
               made   == [t \in DOMAIN environments_data |->
                             frequency_tables(1, env_dfs, environments_data[t], variables_info)]
               failed == {k \in 1..Len(environments) : made[environments[k][1]].raised # "None"}
               first  == CHOOSE k \in failed : \A h \in failed : k <= h
           IN  IF failed # {}
               THEN EsoRaise(made[environments[first][1]].raised)
               ELSE /\ environments_dfs' = [t \in DOMAIN environments_data |-> made[t].dfs]
                    /\ eso_pc' = "done"
                    /\ UNCHANGED eso_error
        /\ UNCHANGED <<annual_code, manage_timesteps, variables_info, environments,
                       environments_data, current_data, last_timestep_end, idd_vars, fd_vars>>

InitEso ==
    /\ \E file \in EsoFiles : parse_start(file)
    /\ head = <<>>
    /\ pc = "parse"
    /\ i = -1
    /\ raw_line = <<>>
    /\ group_name = None
    /\ rd = 0
    /\ fieldd = <<0, 0>>
    /\ rds = <<>>
    /\ table_descriptors = <<>>
    /\ pointed_rd_linkds_d = EmptyDict
    /\ pointing_rd_linkds_d = EmptyDict
    /\ pi = 0
    /\ error = NoError
    /\ idd = FALSE
    /\ ret = NoRet
    /\ fd = FieldDescriptor("A", None)
    /\ fd_ret = NoFdRet

NextEso ==
    \/ ReadVersion
    \/ ReadDictionary
    \/ ReadEnvironment
    \/ ReadInstant
    \/ ReadPeriod
    \/ ReadValue
    \/ ReadEndOfData

SpecEso == InitEso /\ [][NextEso]_vars
-----------------------------------------------------------------------------
(* Properties *)

\* x occurs in the sequence s
InSeq(x, s) == \E j \in 1..Len(s) : s[j] = x

\* how often x occurs in the sequence s
Occurrences(s, x) == Cardinality({j \in 1..Len(s) : s[j] = x})

\* the record descriptors of the catalogue
Registered == {table_descriptors[t][2] : t \in 1..Len(table_descriptors)}

\* the values of a tag of field k (counted from 1) of record descriptor r
FieldTagValues(r, k, tag) ==
    IF tag \in DOMAIN rds[r].field_descriptors[k].tags
    THEN rds[r].field_descriptors[k].tags[tag]
    ELSE <<>>

\* two names that are equal ignoring letter case
SameName(a, b) == Lower(a) = Lower(b)

\* names in several letter cases, to look the link tables up with
ProbeNames == { <<"X">>, <<"x">>, <<"Y","Y">>, <<"y","y">>, <<"Y","y">>, <<"W">>, <<"z","z">> }

\* this step of _parse consumes a line
ReadsLine == pc = "parse" /\ i' = i + 1

\* C1: the detailed type is resolved by a first-match cascade over the tags:
\* reference or reference-class-name, then the lower-cased first 'type' value,
\* then key, object-list, external-list, then the basic type; with both a
\* 'reference' and a 'type' tag the result is reference.  Stated for the step
\* that computes the type; a read returns the type it caches.
C1_DetailedTypeCascade ==
    [][ LET tags   == fd.tags
            has(n) == n \in DOMAIN tags
            r      == fd'.detailed_type
        IN  /\ (fd.detailed_type = None /\ r # None) =>
                  /\ (has(<<"r","e","f","e","r","e","n","c","e">>) \/ has(<<"r","e","f","e","r","e","n","c","e","-","c","l","a","s","s","-","n","a","m","e">>)) => r = <<"r","e","f","e","r","e","n","c","e">>
                  /\ (has(<<"r","e","f","e","r","e","n","c","e">>) /\ has(<<"t","y","p","e">>)) => r = <<"r","e","f","e","r","e","n","c","e">>
                  /\ (~has(<<"r","e","f","e","r","e","n","c","e">>) /\ ~has(<<"r","e","f","e","r","e","n","c","e","-","c","l","a","s","s","-","n","a","m","e">>) /\ has(<<"t","y","p","e">>)) =>
                         /\ tags[<<"t","y","p","e">>] # <<>>
                         /\ r = Lower(tags[<<"t","y","p","e">>][1])
                         /\ tags[<<"t","y","p","e">>][1] = <<"I","n","t","e","g","e","r">> => r = <<"i","n","t","e","g","e","r">>
                  /\ (~has(<<"r","e","f","e","r","e","n","c","e">>) /\ ~has(<<"r","e","f","e","r","e","n","c","e","-","c","l","a","s","s","-","n","a","m","e">>) /\ ~has(<<"t","y","p","e">>)) =>
                         IF has(<<"k","e","y">>) THEN r = <<"c","h","o","i","c","e">>
                         ELSE IF has(<<"o","b","j","e","c","t","-","l","i","s","t">>) THEN r = <<"o","b","j","e","c","t","-","l","i","s","t">>
                         ELSE IF has(<<"e","x","t","e","r","n","a","l","-","l","i","s","t">>) THEN r = <<"e","x","t","e","r","n","a","l","-","l","i","s","t">>
                         ELSE IF fd.basic_type = "A" THEN r = <<"a","l","p","h","a">>
                         ELSE fd.basic_type = "N" /\ r = <<"r","e","a","l">>
            /\ (fd_ret'.op = "detailed_type" /\ fd_ret'.out.raised = "None") =>
                  fd_ret'.out.val = PyStr(r)
      ]_vars

\* C1 witness: a field with a 'reference' and a 'type' tag was read as reference
C1_Witness ==
    /\ fd_ret.op = "detailed_type"
    /\ <<"r","e","f","e","r","e","n","c","e">> \in DOMAIN fd.tags
    /\ <<"t","y","p","e">> \in DOMAIN fd.tags
    /\ fd.tags[<<"t","y","p","e">>] = << <<"I","n","t","e","g","e","r">> >>
    /\ fd_ret.out.val = PyStr(<<"r","e","f","e","r","e","n","c","e">>)

\* every value of the tag on a field of the catalogue has the field's pair in
\* the bucket that a lookup of the value, in any letter case, returns
Linked(d, tag) ==
    \A r \in Registered : \A k \in 1..Len(rds[r].field_descriptors) :
        \A n \in 1..Len(FieldTagValues(r, k, tag)) :
            \A name \in ProbeNames \cup {FieldTagValues(r, k, tag)[n]} :
                SameName(name, FieldTagValues(r, k, tag)[n]) =>
                    InSeq(<<r, k - 1>>, links(d, name))

\* C2: after construction every field of every record descriptor of the
\* catalogue is in pointing_links(V) for each value V of its 'object-list'
\* tag and in pointed_links(V) for each value V of its 'reference' tag,
\* whatever the order of the records and the letter case of V.
C2_LinkTablesCoverTags ==
    idd => /\ Linked(pointing_rd_linkds_d, <<"o","b","j","e","c","t","-","l","i","s","t">>)
           /\ Linked(pointed_rd_linkds_d, <<"r","e","f","e","r","e","n","c","e">>)

\* C2 witness: the referring record is declared before the referred one, and
\* each is found under a name in the other letter case
C2_Witness ==
    /\ idd
    /\ Len(table_descriptors) = 2
    /\ InSeq(<<1, 0>>, links(pointing_rd_linkds_d, <<"X">>))
    /\ InSeq(<<2, 0>>, links(pointed_rd_linkds_d, <<"x">>))

\* C3: a schema with two record headers whose names are equal ignoring case
\* never completes construction.
C3_DuplicateNamesFail ==
    pc = "done" =>
        \A a, b \in 1..Len(rds) : a # b => ~SameName(rds[a].table_name, rds[b].table_name)

\* C4: a line that matches no production makes construction fail with a
\* RuntimeError that carries the 1-based number and the raw text of the line;
\* nothing is registered for it and no line is read after the failure.
C4_UnparsedLineFails ==
    [][ /\ (ReadsLine /\ production(raw_line') = "not_parsed") =>
               /\ pc' = "failed"
               /\ ~idd'
               /\ error'.type = "RuntimeError"
               /\ error'.lineno = i' + 1
               /\ error'.raw = raw_line'
               /\ rds' = rds
               /\ table_descriptors' = table_descriptors
        /\ pc = "failed" => i' = i /\ pc' = "failed"
      ]_vars

\* C4 witness: the third line of the schema was not parsed
C4_Witness ==
    /\ pc = "failed"
    /\ error = [type |-> "RuntimeError", msg |-> "Line %i not parsed: '%s'.",
                lineno |-> 3, raw |-> <<"b","a","d"," ","l","i","n","e","\n">>]
    /\ i = 2

\* C5: the group name is None until the first group line and a group label
\* from then on; a record header met while it is None fails with "No group
\* name." and registers nothing; a later record header never fails this
\* check and its record carries the label of the last group line.
C5_GroupRequired ==
    [][ /\ i = -1 => group_name = None
        /\ (ReadsLine /\ production(raw_line') = "group") =>
               /\ group_name' # None
               /\ raw_line' = <<"\\","g","r","o","u","p"," ","H","\n">> => group_name' = <<"H">>
               /\ raw_line' = <<"\\","g","r","o","u","p"," ","G","\n">> => group_name' = <<"G">>
        /\ (ReadsLine /\ production(raw_line') # "group") => group_name' = group_name
        /\ (ReadsLine /\ production(raw_line') = "rd") =>
               IF group_name = None
               THEN /\ pc' = "failed"
                    /\ error'.type = "AssertionError"
                    /\ error'.msg = "No group name."
                    /\ rds' = rds
                    /\ table_descriptors' = table_descriptors
               ELSE /\ error'.msg # "No group name."
                    /\ pc' = "parse" =>
                           /\ rd' = Len(rds) + 1
                           /\ Len(rds') = Len(rds) + 1
                           /\ rds'[rd'].group_name = group_name
                           /\ InSeq(<<Lower(rds'[rd'].table_name), rd'>>, table_descriptors')
      ]_vars

\* C5 witness: a record header came before any group line
C5_Witness ==
    /\ pc = "failed"
    /\ error.msg = "No group name."
    /\ production(raw_line) = "rd"
    /\ rds = <<>>

\* no bucket in either link table
NoLinks == DOMAIN pointed_rd_linkds_d = {} /\ DOMAIN pointing_rd_linkds_d = {}

\* every entry of table d stands for one value of the tag on a field of the
\* catalogue, and each value has one entry: the link pass ran once
LinkedOnce(d, tag) ==
    /\ \A name \in DOMAIN d : \A p \in Range(d[name]) :
           /\ p[1] \in Registered
           /\ p[2] + 1 \in 1..Len(rds[p[1]].field_descriptors)
           /\ Occurrences(d[name], p) =
                  Cardinality({n \in 1..Len(FieldTagValues(p[1], p[2] + 1, tag)) :
                                   Lower(FieldTagValues(p[1], p[2] + 1, tag)[n]) = name})
    /\ \A r \in Registered : \A k \in 1..Len(rds[r].field_descriptors) :
           \A n \in 1..Len(FieldTagValues(r, k, tag)) :
               /\ Lower(FieldTagValues(r, k, tag)[n]) \in DOMAIN d
               /\ InSeq(<<r, k - 1>>, d[Lower(FieldTagValues(r, k, tag)[n])])

\* C6: the passes run in the order parse, post_init, link: no post_init call
\* before the last line is parsed, one call per registered descriptor in
\* catalogue order, the link tables empty until every call has returned, and
\* filled by one run of the link pass.
C6_PassOrder ==
    /\ \A r \in 1..Len(rds) : rds[r].post_init_calls <= 1
    /\ pc = "parse" => NoLinks /\ \A r \in 1..Len(rds) : rds[r].post_init_calls = 0
    /\ pc = "post_init" =>
           /\ NoLinks
           /\ \A t \in 1..Len(table_descriptors) :
                  rds[table_descriptors[t][2]].post_init_calls = IF t <= pi THEN 1 ELSE 0
    /\ pc = "link" => NoLinks /\ \A r \in Registered : rds[r].post_init_calls = 1
    /\ pc = "done" =>
           /\ \A r \in Registered : rds[r].post_init_calls = 1
           /\ LinkedOnce(pointed_rd_linkds_d, <<"r","e","f","e","r","e","n","c","e">>)
           /\ LinkedOnce(pointing_rd_linkds_d, <<"o","b","j","e","c","t","-","l","i","s","t">>)

\* C6 witness: a catalogue of two record descriptors with links was built
C6_Witness ==
    /\ pc = "done"
    /\ Len(table_descriptors) = 2
    /\ DOMAIN pointed_rd_linkds_d # {}
    /\ DOMAIN pointing_rd_linkds_d # {}

\* C7: the caller holds a catalogue only when no pass failed and all three
\* passes are complete; a lookup is only ever made on such a catalogue.
C7_AllOrNothing ==
    /\ pc = "failed" => ~idd
    /\ error # NoError => ~idd
    /\ idd =>
           /\ pc = "done"
           /\ \A r \in Registered : rds[r].post_init_calls = 1
           /\ \A r \in Registered : \A k \in 1..Len(rds[r].field_descriptors) :
                  /\ \A n \in 1..Len(FieldTagValues(r, k, <<"r","e","f","e","r","e","n","c","e">>)) :
                         InSeq(<<r, k - 1>>,
                               links(pointed_rd_linkds_d, FieldTagValues(r, k, <<"r","e","f","e","r","e","n","c","e">>)[n]))
                  /\ \A n \in 1..Len(FieldTagValues(r, k, <<"o","b","j","e","c","t","-","l","i","s","t">>)) :
                         InSeq(<<r, k - 1>>,
                               links(pointing_rd_linkds_d, FieldTagValues(r, k, <<"o","b","j","e","c","t","-","l","i","s","t">>)[n]))
    /\ ret # NoRet => idd /\ pc = "done"

\* C7 witness: post_init failed on a catalogue with a registered record, and
\* the caller holds nothing
C7_Witness ==
    /\ pc = "failed"
    /\ error.type = "Exception"
    /\ Len(table_descriptors) > 0
    /\ ~idd

\* table d has no bucket for the name, compared ignoring case
NoBucket(d, name) == \A key \in DOMAIN d : ~SameName(key, name)

\* C8: a link lookup of a name without bucket returns the empty sequence and
\* does not raise, and no lookup changes either link table.
C8_LookupMissIsEmpty ==
    [][ idd =>
          /\ pointed_rd_linkds_d' = pointed_rd_linkds_d
          /\ pointing_rd_linkds_d' = pointing_rd_linkds_d
          /\ (ret'.op = "pointed_links" /\ NoBucket(pointed_rd_linkds_d, ret'.arg)) =>
                 ret'.val = <<>> /\ ret'.raised = "None"
          /\ (ret'.op = "pointing_links" /\ NoBucket(pointing_rd_linkds_d, ret'.arg)) =>
                 ret'.val = <<>> /\ ret'.raised = "None"
      ]_vars

\* C8 witness: a lookup missed in a table that has buckets
C8_Witness ==
    /\ idd
    /\ ret.op = "pointed_links"
    /\ ret.arg = <<"z","z">>
    /\ ret.val = <<>>
    /\ DOMAIN pointed_rd_linkds_d # {}

\* C9: get_record_descriptor returns a registered descriptor whose name is
\* the argument ignoring case, and raises KeyError exactly when no record of
\* that name, ignoring case, was declared.
C9_RecordLookup ==
    ret.op = "get_record_descriptor" =>
        /\ ret.raised \in {"None", "KeyError"}
        /\ ret.raised = "None" =>
               /\ ret.val[1] \in Registered
               /\ SameName(rds[ret.val[1]].table_name, ret.arg)
        /\ ret.raised = "KeyError" <=>
               ~\E r \in 1..Len(rds) : SameName(rds[r].table_name, ret.arg)

\* C9 witness: of two records, the one declared as Zone is found as ZONE
C9_Witness ==
    /\ ret.op = "get_record_descriptor"
    /\ ret.arg = <<"Z","O","N","E">>
    /\ ret.raised = "None"
    /\ Len(table_descriptors) = 2
    /\ rds[ret.val[1]].table_name = <<"Z","o","n","e">>

\* a text that is empty after whitespace collapsing and trimming
BlankText(v) == v.t = "str" /\ \A k \in 1..Len(v.s) : v.s[k] \in WS

\* C10: deserialize of None and of a text that is empty once collapsed and
\* trimmed returns None, raises nothing and does not resolve the detailed
\* type, whatever the tags of the field.
C10_NullDeserialize ==
    [][ (fd_ret'.op = "deserialize" /\ (fd_ret'.arg.t = "NoneType" \/ BlankText(fd_ret'.arg))) =>
            /\ fd_ret'.out = Returned("None", <<>>, PyNone)
            /\ fd' = fd
      ]_vars

\* C10 witness: a blank text was given to a field whose 'type' tag names no
\* known kind, and whose type is still unresolved
C10_Witness ==
    /\ fd_ret.op = "deserialize"
    /\ fd_ret.arg = PyStr(<<" ","\t"," ">>)
    /\ fd_ret.out = Returned("None", <<>>, PyNone)
    /\ <<"t","y","p","e">> \in DOMAIN fd.tags
    /\ fd.tags[<<"t","y","p","e">>] = << <<"F","o","o">> >>
    /\ fd.detailed_type = None

\* a text that is not empty once collapsed and trimmed
FilledText(v) == v.t = "str" /\ \E k \in 1..Len(v.s) : v.s[k] \notin WS

\* the normalized form of a text: collapsed and trimmed, transliterated,
\* lower-cased unless the field has 'retaincase'
Normalized(tags, s) ==
    LET ascii == unidecode(sub_spaces(Strip(s)))
    IN  IF <<"r","e","t","a","i","n","c","a","s","e">> \in DOMAIN tags THEN ascii ELSE Lower(ascii)

\* C11: deserialize of a text whose normalized form has 100 characters or
\* more raises a field validation error for every field kind (the kind is
\* not even resolved); with 99 characters or less a text kind returns the
\* text, a reference kind and an object-list kind that has a category return
\* their wrapper, and a numeric
\* kind returns the number of a digit string.  The raw length does not
\* count: 99 raw characters that transliterate to 100 fail, 103 raw
\* characters that collapse to 99 pass.
C11_LengthLimit ==
    [][ \A call \in {fd_ret'} : \A kind \in {fd'.detailed_type} :
          (call.op = "deserialize" /\ FilledText(call.arg)) =>
              \A norm \in {Normalized(fd.tags, call.arg.s)} :
                  /\ Len(norm) >= 100 =>
                         call.out = Raised("FieldValidationError") /\ fd' = fd
                  /\ Len(norm) <= 99 =>
                         /\ kind \in {<<"a","l","p","h","a">>, <<"c","h","o","i","c","e">>, <<"n","o","d","e">>, <<"e","x","t","e","r","n","a","l","-","l","i","s","t">>} =>
                                call.out = Returned("None", <<>>, PyStr(norm))
                         /\ (kind = <<"r","e","f","e","r","e","n","c","e">> \/
                             (kind = <<"o","b","j","e","c","t","-","l","i","s","t">> /\ get_tag(fd.tags, <<"o","b","j","e","c","t","-","l","i","s","t">>) # <<>>)) =>
                                call.out.raised = "None" /\ call.out.val = PyStr(norm)
                         /\ (kind \in {<<"i","n","t","e","g","e","r">>, <<"r","e","a","l">>} /\ Range(norm) \subseteq Digits) =>
                                call.out.raised = "None"
                  /\ call.arg.s = Rep("a", 98) \o <<"U+00DF">> =>
                         Len(call.arg.s) = 99 /\ call.out = Raised("FieldValidationError")
                  /\ (call.arg.s = <<" ","\t">> \o Rep("0", 98) \o <<"7"," "," ">> /\ kind = <<"a","l","p","h","a">>) =>
                         /\ Len(call.arg.s) = 103
                         /\ call.out = Returned("None", <<>>, PyStr(Rep("0", 98) \o <<"7">>))
      ]_vars

\* C11 witness: an alpha field was given 99 upper-case letters and returned
\* them lower-cased
C11_Witness ==
    /\ fd_ret.op = "deserialize"
    /\ fd_ret.arg = PyStr(Rep("A", 99))
    /\ fd.detailed_type = <<"a","l","p","h","a">>
    /\ fd_ret.out = Returned("None", <<>>, PyStr(Rep("a", 99)))

\* the three sentinel literals
SentinelLiterals == { <<"a","u","t","o","c","a","l","c","u","l","a","t","e">>, <<"a","u","t","o","s","i","z","e">>, <<"u","s","e","w","e","a","t","h","e","r","f","i","l","e">> }

\* C12: an Integer or Real field returns each of the sentinel literals
\* autocalculate, autosize, useweatherfile as the same text, without a
\* numeric parse (which would fail); so does a text that normalizes to one.
C12_SentinelsPassThrough ==
    [][ \A call \in {fd_ret'} : \A kind \in {fd'.detailed_type} :
          (call.op = "deserialize" /\ kind \in {<<"i","n","t","e","g","e","r">>, <<"r","e","a","l">>} /\ FilledText(call.arg)) =>
              /\ call.arg.s \in SentinelLiterals =>
                     call.out = Returned("None", <<>>, call.arg)
              /\ Normalized(fd.tags, call.arg.s) \in SentinelLiterals =>
                     call.out = Returned("None", <<>>, PyStr(Normalized(fd.tags, call.arg.s)))
      ]_vars

\* C12 witness: a Real field returned the sentinel it was given
C12_Witness ==
    /\ fd_ret.op = "deserialize"
    /\ fd_ret.arg = PyStr(<<"u","s","e","w","e","a","t","h","e","r","f","i","l","e">>)
    /\ fd.detailed_type = <<"r","e","a","l">>
    /\ fd_ret.out = Returned("None", <<>>, PyStr(<<"u","s","e","w","e","a","t","h","e","r","f","i","l","e">>))

\* a signed integer text as int() reads it: an optional sign, then decimal
\* digits; Python also takes single underscores between digits ("1_0" is 10)
SignedIntegerText(s) ==
    LET u == IF s # <<>> /\ s[1] \in {"+", "-"} THEN Tail(s) ELSE s
    IN  /\ u # <<>>
        /\ u[1] \in Digits
        /\ u[Len(u)] \in Digits
        /\ \A k \in 1..Len(u) : u[k] \in Digits \/ (u[k] = "_" /\ u[k - 1] # "_")

\* C13: an Integer field returns n for str(n), negative n included, and
\* raises a field validation error, nothing else, for every text that is
\* neither a sentinel nor a signed integer text; a Real field returns a
\* number equal to n for str(n).
C13_NumericRoundTrip ==
    [][ \A call \in {fd_ret'} : \A kind \in {fd'.detailed_type} :
          (call.op = "deserialize" /\ FilledText(call.arg)) =>
              /\ \A n \in (0 - MaxInt)..MaxInt :
                     call.arg.s = str_int(n) =>
                         /\ kind = <<"i","n","t","e","g","e","r">> => call.out = Returned("None", <<>>, PyInt(n))
                         /\ kind = <<"r","e","a","l">> => call.out = Returned("None", <<>>, PyFloat(n, 1))
              /\ kind = <<"i","n","t","e","g","e","r">> =>
                     \A norm \in {Normalized(fd.tags, call.arg.s)} :
                         (Len(norm) < 100 /\ norm \notin SentinelLiterals) =>
                             IF SignedIntegerText(norm)
                             THEN call.out.raised = "None" /\ call.out.val.t = "int"
                             ELSE call.out = Raised("FieldValidationError")
      ]_vars

\* C13 witness: an Integer field returned -11 for "-11"
C13_Witness ==
    /\ fd_ret.op = "deserialize"
    /\ fd_ret.arg = PyStr(<<"-","1","1">>)
    /\ fd.detailed_type = <<"i","n","t","e","g","e","r">>
    /\ fd_ret.out = Returned("None", <<>>, PyInt(0 - 11))

\* C14: a field of kind alpha, choice, node or external-list returns a text
\* as its normalized form, raises a field validation error for an input that
\* is neither null nor text, and returns nothing but text (null for a null
\* or blank input).
C14_StringKinds ==
    [][ \A call \in {fd_ret'} : \A kind \in {fd'.detailed_type} :
          (call.op = "deserialize" /\ kind \in {<<"a","l","p","h","a">>, <<"c","h","o","i","c","e">>, <<"n","o","d","e">>, <<"e","x","t","e","r","n","a","l","-","l","i","s","t">>}) =>
              /\ (FilledText(call.arg) /\ Len(Normalized(fd.tags, call.arg.s)) < 100) =>
                     call.out = Returned("None", <<>>, PyStr(Normalized(fd.tags, call.arg.s)))
              /\ call.arg.t \notin {"NoneType", "str"} =>
                     call.out = Raised("FieldValidationError")
              /\ call.out.raised = "None" =>
                     /\ call.out.wrap = "None"
                     /\ call.out.val.t \in {"str", "NoneType"}
                     /\ call.out.val.t = "NoneType" =>
                            call.arg.t = "NoneType" \/ (call.arg.t = "str" /\ ~FilledText(call.arg))
      ]_vars

\* C14 witness: a choice field was given the integer 5 and raised
C14_Witness ==
    /\ fd_ret.op = "deserialize"
    /\ fd_ret.arg = PyInt(5)
    /\ fd.detailed_type = <<"c","h","o","i","c","e">>
    /\ fd_ret.out = Raised("FieldValidationError")

\* the value deserialize works on after the "prepare if string" block
Prepared(tags, v) == IF v.t = "str" THEN PyStr(Normalized(tags, v.s)) ELSE v

\* an input the type-specific rules get: not null, not blank, not too long
Typed(tags, v) ==
    /\ v.t # "NoneType"
    /\ v.t = "str" => FilledText(v) /\ Len(Normalized(tags, v.s)) < 100

\* C15: a Reference field returns a reference anchor with the normalized
\* value and all values of its 'reference' tag in declaration order; when it
\* has a 'reference-class-name' tag and no 'reference' tag the list is empty
\* and nothing is raised.
C15_ReferenceAnchor ==
    [][ \A call \in {fd_ret'} : \A kind \in {fd'.detailed_type} :
          (call.op = "deserialize" /\ kind = <<"r","e","f","e","r","e","n","c","e">> /\ Typed(fd.tags, call.arg)) =>
              /\ call.out.raised = "None"
              /\ call.out.wrap = "RecordHook"
              /\ call.out.val = Prepared(fd.tags, call.arg)
              /\ <<"r","e","f","e","r","e","n","c","e">> \in DOMAIN fd.tags => call.out.refs = fd.tags[<<"r","e","f","e","r","e","n","c","e">>]
              /\ <<"r","e","f","e","r","e","n","c","e">> \notin DOMAIN fd.tags =>
                     <<"r","e","f","e","r","e","n","c","e","-","c","l","a","s","s","-","n","a","m","e">> \in DOMAIN fd.tags /\ call.out.refs = <<>>
      ]_vars

\* C15 witness: the anchor of a field with two 'reference' values has both
C15_Witness ==
    /\ fd_ret.op = "deserialize"
    /\ fd_ret.arg = PyStr(<<"A","b"," "," ","C">>)
    /\ fd.detailed_type = <<"r","e","f","e","r","e","n","c","e">>
    /\ fd_ret.out = Returned("RecordHook", << <<"X">>, <<"y","y">> >>, PyStr(<<"a","b"," ","c">>))

\* field k (counted from 1) of record descriptor r
Field(r, k) == rds[r].field_descriptors[k]

\* C16: an ObjectList field returns for a non-empty value a forward link
\* that carries the first value of its 'object-list' tag, and nothing of the
\* further values, with the normalized value; yet the link pass has the
\* field in the pointing bucket of every one of these values.
C16_LinkCarriesFirstCategory ==
    idd =>
        \A r \in Registered : \A k \in 1..Len(rds[r].field_descriptors) :
            \A vals \in {FieldTagValues(r, k, <<"o","b","j","e","c","t","-","l","i","s","t">>)} :
                (detailed_type(Field(r, k)) = <<"o","b","j","e","c","t","-","l","i","s","t">> /\ vals # <<>>) =>
                    /\ deserialize(Field(r, k), PyStr(<<"A","b"," "," ","C">>)) =
                           Returned("Link", <<vals[1]>>, PyStr(<<"a","b"," ","c">>))
                    /\ deserialize(Field(r, k), PyInt(5)) = Returned("Link", <<vals[1]>>, PyInt(5))
                    /\ \A n \in 1..Len(vals) :
                           InSeq(<<r, k - 1>>, links(pointing_rd_linkds_d, vals[n]))

\* C16 witness: a field with the 'object-list' values x and w gives a link
\* to x and is in the pointing buckets of x and of w
C16_Witness ==
    /\ idd
    /\ Len(rds) > 0 /\ Len(rds[1].field_descriptors) > 0
    /\ FieldTagValues(1, 1, <<"o","b","j","e","c","t","-","l","i","s","t">>) = << <<"x">>, <<"w">> >>
    /\ deserialize(Field(1, 1), PyStr(<<"A","b"," "," ","C">>)) = Returned("Link", << <<"x">> >>, PyStr(<<"a","b"," ","c">>))
    /\ InSeq(<<1, 0>>, links(pointing_rd_linkds_d, <<"x">>))
    /\ InSeq(<<1, 0>>, links(pointing_rd_linkds_d, <<"W">>))


-----------------------------------------------------------------------------
(* Identifier derivation *)

\* s holds two underscores side by side
DoubleUnderscore(s) == \E k \in 1..(Len(s) - 1) : s[k] = "_" /\ s[k + 1] = "_"

\* C17: for a field built with a name, var_name_to_ref of that name gives the
\* field's ref again, var_name_to_ref of the ref gives the ref unchanged, and
\* every ref is made of word characters only, with no two underscores side by
\* side.
C17_RefIdempotent ==
    fd_ret.op = "var_name_to_ref" =>
        /\ fd_ret.out = Returned("None", <<>>, PyStr(fd.ref))
        /\ Range(fd_ret.out.val.s) \subseteq WordChars
        /\ ~DoubleUnderscore(fd_ret.out.val.s)

\* a ref that differs from its name has been derived a second time
C17_Witness ==
    /\ fd.name = <<"Z","o","n","e"," "," ","N","a","m","e","!","!">>
    /\ fd_ret.op = "var_name_to_ref"
    /\ fd_ret.arg = PyStr(fd.ref)
    /\ fd.ref # fd.name

\* name without its leading and trailing non-word characters
TrimNonWord(name) ==
    LET words == {k \in 1..Len(name) : name[k] \in WordChars}
    IN  IF words = {} THEN <<>>
        ELSE SubSeq(name, CHOOSE k \in words : \A h \in words : k <= h,
                          CHOOSE k \in words : \A h \in words : h <= k)

\* C18: the ref of a name is the ref of the name without its leading and
\* trailing non-word characters, a name that starts with a non-word character
\* gets a ref without a leading underscore, and "Zone  Name!!" and "zone_name"
\* both give zone_name.
C18_EdgesStripped ==
    /\ fd.ref = var_name_to_ref(TrimNonWord(fd.name))
    /\ fd.name # <<>> /\ fd.name[1] \notin WordChars => fd.ref = <<>> \/ fd.ref[1] # "_"
    /\ fd.name \in { <<"Z","o","n","e"," "," ","N","a","m","e","!","!">>, <<"z","o","n","e","_","n","a","m","e">> } => fd.ref = <<"z","o","n","e","_","n","a","m","e">>

\* names that differ by letter case or by repeated separators between words
\* do derive the same ref
C18_CaseAndSeparators ==
    /\ fd.name \in { <<"Z","o","n","e"," ","N","a","m","e">>, <<"z","o","n","e","_","n","a","m","e">> } => fd.ref = <<"z","o","n","e","_","n","a","m","e">>
    /\ fd.name = <<"Z","o","n","e"," "," ","N","a","m","e","!","!">> => fd.ref = <<"z","o","n","e","_","n","a","m","e","_">>
    /\ fd.name = <<"!","!","Z","o","n","e"," ","N","a","m","e">> => fd.ref = <<"_","z","o","n","e","_","n","a","m","e">>

-----------------------------------------------------------------------------
(* The tag store *)

\* C19: append_tag(ref, value) leaves ref registered; a value that is given
\* becomes the last element of ref's list, after the earlier values in their
\* order; without a value ref's list is what it was (empty for a new ref);
\* the lists of all other names are what they were, and no other name appears.
C19_AppendFrame ==
    [][ \A call \in {fd_ret'} : \A before \in {fd.tags} : \A after \in {fd'.tags} :
            call.op = "append_tag" =>
                LET ref   == call.arg.ref
                    value == call.arg.value
                IN  /\ has_tag(after, ref)
                    /\ DOMAIN after = DOMAIN before \cup {ref}
                    /\ \A other \in DOMAIN before \ {ref} : after[other] = before[other]
                    /\ value # None => after[ref] = get_tag(before, ref) \o <<value>>
                    /\ value = None => after[ref] = get_tag(before, ref) ]_vars

\* a second value has been appended to a name while another name had a value
C19_Witness ==
    /\ fd_ret.op = "append_tag"
    /\ fd_ret.arg = [ref |-> <<"r","e","f","e","r","e","n","c","e">>, value |-> <<"y","y">>]
    /\ DOMAIN fd.tags = { <<"r","e","f","e","r","e","n","c","e">>, <<"t","y","p","e">> }
    /\ fd.tags[<<"r","e","f","e","r","e","n","c","e">>] = << <<"X">>, <<"y","y">> >>
    /\ fd.tags[<<"t","y","p","e">>] = << <<"I","n","t","e","g","e","r">> >>

-----------------------------------------------------------------------------
(* Where _parse puts a tag *)

\* the tag store after holds the tag (ref, value) on top of the store before
Attached(before, after, ref, value) ==
    /\ DOMAIN after = DOMAIN before \cup {ref}
    /\ \A other \in DOMAIN before \ {ref} : after[other] = before[other]
    /\ after[ref] = IF value = None THEN get_tag(before, ref)
                    ELSE get_tag(before, ref) \o <<value>>

\* C20: a tag line that _parse accepts goes to the open field, which is the
\* last field of the current record and never a field of an earlier record,
\* and otherwise to the current record, which then has no field yet; nothing
\* else changes.  A field-declaration line opens the last field it creates, a
\* record-header line makes the new record current and closes the field, and
\* a group or legacy line closes both the field and the record.
C20_TagAttachment ==
    [][ \A raw \in {raw_line'} : \A before \in {rds} : \A after \in {rds'} :
            (ReadsLine /\ error' = NoError) =>
                LET kind    == production(raw)
                    content == tag_content(tear_comment(raw))
                    ref     == tag_ref_of(content)
                    value   == tag_value_of(content)
                    last    == Len(before[rd].field_descriptors)
                IN  /\ kind = "tag" =>
                          /\ rd' = rd /\ fieldd' = fieldd
                          /\ rd # 0
                          /\ IF fieldd # <<0, 0>>
                             THEN /\ fieldd = <<rd, last>>
                                  /\ Attached(before[rd].field_descriptors[last].tags,
                                              after[rd].field_descriptors[last].tags, ref, value)
                                  /\ after = [before EXCEPT ![rd].field_descriptors[last].tags =
                                                                after[rd].field_descriptors[last].tags]
                             ELSE /\ last = 0
                                  /\ Attached(before[rd].tags, after[rd].tags, ref, value)
                                  /\ after = [before EXCEPT ![rd].tags = after[rd].tags]
                    /\ kind \in {"named_field", "unnamed_fields"} =>
                          /\ rd' = rd
                          /\ Len(after[rd].field_descriptors) > last
                          /\ fieldd' = <<rd, Len(after[rd].field_descriptors)>>
                          /\ after[rd].field_descriptors[fieldd'[2]].tags = EmptyDict
                          /\ SubSeq(after[rd].field_descriptors, 1, last) = before[rd].field_descriptors
                    /\ kind = "rd" =>
                          /\ rd' = Len(after) /\ Len(after) = Len(before) + 1
                          /\ after[rd'].field_descriptors = <<>>
                          /\ fieldd' = <<0, 0>>
                    /\ kind \in {"group", "special"} => rd' = 0 /\ fieldd' = <<0, 0>> ]_vars

\* a second record got a tag of its own and then a tag on its field, while the
\* field of the first record kept its two tag values
C20_Witness ==
    /\ Len(rds) = 2
    /\ rd = 2 /\ fieldd = <<2, 1>>
    /\ raw_line = <<"\\","r","e","f","e","r","e","n","c","e"," ","X","\n">>
    /\ rds[2].tags = (<<"r","e","f","e","r","e","n","c","e">> :> << <<"X">> >>)
    /\ Len(rds[2].field_descriptors) = 1
    /\ rds[2].field_descriptors[1].tags = (<<"r","e","f","e","r","e","n","c","e">> :> << <<"X">> >>)
    /\ rds[1].field_descriptors[1].tags = (<<"o","b","j","e","c","t","-","l","i","s","t">> :> << <<"x">>, <<"w">> >>)

-----------------------------------------------------------------------------
(* Context resets *)

\* the head that ends with a legacy line
LegacyHead == CHOOSE h \in Heads : h # <<>> /\ h[Len(h)] = <<"S","i","m","u","l","a","t","i","o","n"," ","D","a","t","a",";","\n">>

\* C21: a group line and the lines 'Lead Input;' and 'Simulation Data;' leave
\* no current record and no current field and create no descriptor, and
\* parsing goes on; while there is no current record there is no current
\* field, and a tag or field-declaration line read then changes no descriptor
\* and makes construction fail.
C21_ContextReset ==
    [][ \A raw \in {raw_line'} : \A kind \in {production(raw_line')} :
            ReadsLine =>
                /\ (kind = "group" \/ raw \in { <<"L","e","a","d"," ","I","n","p","u","t",";","\n">>, <<"S","i","m","u","l","a","t","i","o","n"," ","D","a","t","a",";","\n">> }) =>
                       /\ rd' = 0 /\ fieldd' = <<0, 0>>
                       /\ rds' = rds /\ table_descriptors' = table_descriptors
                       /\ pc' = "parse" /\ error' = NoError
                /\ rd = 0 => fieldd = <<0, 0>>
                /\ (rd = 0 /\ kind \in {"tag", "named_field", "unnamed_fields"}) =>
                       /\ rds' = rds /\ table_descriptors' = table_descriptors
                       /\ pc' = "failed" /\ ~idd'
                       /\ error'.type = "AttributeError" ]_vars

\* a tag line after 'Simulation Data;' has failed, and the record and the
\* field that were open before the legacy line have no tag from it
C21_Witness ==
    /\ head = LegacyHead
    /\ pc = "failed"
    /\ i = Len(head)
    /\ raw_line = <<"\\","r","e","f","e","r","e","n","c","e"," ","X","\n">>
    /\ Len(rds) = 3
    /\ rds[3].tags = EmptyDict
    /\ Len(rds[3].field_descriptors) = 1
    /\ rds[3].field_descriptors[1].tags = (<<"r","e","f","e","r","e","n","c","e">> :> << <<"X">> >>)

-----------------------------------------------------------------------------
(* Unnamed field declarations *)

\* the basic kinds of the slot tokens of an unnamed field-declaration line,
\* whichever of "," and ";" separates them
SlotKinds(line) == SelectSeq(SplitFirst(line, <<"\\","n","o","t","e">>), LAMBDA c : c \in {"A", "N"})

\* C22: an unnamed field-declaration line that _parse accepts appends one
\* nameless field descriptor per slot token to the current record, in token
\* order and with the basic kind of the token, and the last of them becomes
\* the current field.
C22_OneFieldPerSlot ==
    [][ \A raw \in {raw_line'} : \A before \in {rds} : \A after \in {rds'} :
            (ReadsLine /\ production(raw) = "unnamed_fields" /\ error' = NoError) =>
                LET kinds == SlotKinds(tear_comment(raw))
                IN  /\ rd' = rd
                    /\ after[rd].field_descriptors =
                           before[rd].field_descriptors \o
                               [k \in 1..Len(kinds) |-> FieldDescriptor(kinds[k], None)]
                    /\ fieldd' = <<rd, Len(after[rd].field_descriptors)>> ]_vars

\* what the code does: one descriptor per comma-separated piece, with the
\* basic kind of the first token of the piece
C22_OneFieldPerCommaPiece ==
    [][ \A raw \in {raw_line'} : \A before \in {rds} : \A after \in {rds'} :
            (ReadsLine /\ production(raw) = "unnamed_fields" /\ error' = NoError) =>
                /\ raw = <<"N","1",",","A","2",";","\\","n","o","t","e"," ","x","\n">> =>
                       after[rd].field_descriptors =
                           before[rd].field_descriptors \o
                               << FieldDescriptor("N", None), FieldDescriptor("A", None) >>
                /\ raw = <<"A","1",";","N","2",";","\\","n","o","t","e"," ","x","\n">> =>
                       after[rd].field_descriptors =
                           before[rd].field_descriptors \o << FieldDescriptor("A", None) >>
                /\ fieldd' = <<rd, Len(after[rd].field_descriptors)>> ]_vars

-----------------------------------------------------------------------------
(* The cached detailed type *)

\* the tag stores with the names of tags and the first 'type' value of tags,
\* and any other values in any order
SameNames(tags) ==
    {other \in [DOMAIN tags -> { <<>>, << <<"X">> >>, << <<"y","y">>, <<"X">> >>, << <<"I","n","t","e","g","e","r">> >>, << <<"n","o","d","e">> >>,
                                 << <<"F","o","o">> >>, << <<"n","o","d","e">>, <<"I","n","t","e","g","e","r">> >>, << <<"I","n","t","e","g","e","r">>, <<"n","o","d","e">> >>,
                                 << <<"F","o","o">>, <<"X">> >> }] :
        <<"t","y","p","e">> \in DOMAIN tags =>
            /\ (tags[<<"t","y","p","e">>] = <<>>) = (other[<<"t","y","p","e">>] = <<>>)
            /\ tags[<<"t","y","p","e">>] # <<>> => other[<<"t","y","p","e">>][1] = tags[<<"t","y","p","e">>][1]}

\* C23: a detailed type that has been computed stays what it is over every
\* later call, append_tag included, and a later read returns it; the step that
\* computes it gives what the cascade gives for every tag store with the same
\* tag names, the same first 'type' value and the same basic type.
C23_DetailedTypeStable ==
    [][ \A f \in {fd} : \A g \in {fd'} : \A call \in {fd_ret'} :
            /\ f.detailed_type # None =>
                   /\ g.detailed_type = f.detailed_type
                   /\ call.op = "detailed_type" =>
                          call.out = Returned("None", <<>>, PyStr(f.detailed_type))
            /\ (f.detailed_type = None /\ g.detailed_type # None) =>
                   \A other \in SameNames(f.tags) :
                       resolve_detailed_type(other, f.basic_type) = g.detailed_type ]_vars

\* a read after a 'reference' tag was appended to a field whose type had been
\* computed as alpha
C23_Witness ==
    /\ fd.basic_type = "A"
    /\ fd.detailed_type = <<"a","l","p","h","a">>
    /\ has_tag(fd.tags, <<"r","e","f","e","r","e","n","c","e">>)
    /\ fd_ret.op = "detailed_type"
    /\ fd_ret.out = Returned("None", <<>>, PyStr(<<"a","l","p","h","a">>))

-----------------------------------------------------------------------------
(* What deserialize leaves alone *)

\* values of a later deserialize call
LaterValues == { PyNone, PyStr(<<"1","2">>), PyStr(<<" ","A","b"," "," ","C"," ">>), PyStr(<<"a","u","t","o","s","i","z","e">>), PyStr(<<"1",".","5">>), PyInt(5) }

\* C24: a deserialize call, whatever it is given and however it ends, leaves
\* the tags, the basic type, the name and the ref of the field and the whole
\* catalogue as they were, and every later deserialize call on the field
\* gives what it would have given without that call.
C24_DeserializeFrame ==
    [][ \A f \in {fd} : \A g \in {fd'} : \A call \in {fd_ret'} :
            call.op = "deserialize" =>
                /\ g.tags = f.tags
                /\ g.basic_type = f.basic_type
                /\ g.name = f.name
                /\ g.ref = f.ref
                /\ UNCHANGED idd_vars
                /\ \A later \in LaterValues : deserialize(g, later) = deserialize(f, later) ]_vars

\* a call has raised a validation error on a field whose type it was the
\* first to compute
C24_Witness ==
    /\ fd_ret.op = "deserialize"
    /\ fd_ret.arg = PyStr(<<"a","b","c">>)
    /\ fd_ret.out = Raised("FieldValidationError")
    /\ fd.detailed_type = <<"i","n","t","e","g","e","r">>
    /\ fd.tags = (<<"t","y","p","e">> :> << <<"I","n","t","e","g","e","r">> >>)

-----------------------------------------------------------------------------
(* The order inside a link bucket *)

\* the pair p stands before the pair q when records are counted by place
BucketOrder(place, p, q) ==
    \/ place[p[1]] < place[q[1]]
    \/ p[1] = q[1] /\ p[2] <= q[2]

\* every bucket of table d is ordered by place, then by field index, and every
\* pair holds an index of a field of its record
Ordered(d, place) ==
    \A name \in DOMAIN d : \A b \in 1..Len(d[name]) :
        /\ d[name][b][2] \in 0..(Len(rds[d[name][b][1]].field_descriptors) - 1)
        /\ \A a \in 1..(b - 1) : BucketOrder(place, d[name][a], d[name][b])

\* C25: in every bucket of both link tables the pairs stand in declaration
\* order, records by the order of their header lines and the fields of one
\* record by increasing index, and every index is one of a field of its record.
C25_DeclarationOrder ==
    idd => /\ Ordered(pointed_rd_linkds_d, [r \in 1..Len(rds) |-> r])
           /\ Ordered(pointing_rd_linkds_d, [r \in 1..Len(rds) |-> r])

\* what the code does: records stand by the place of their name in the
\* catalogue, which is the place where the name was declared first
C25_CatalogueOrder ==
    LET place == [r \in Registered |->
                     CHOOSE t \in 1..Len(table_descriptors) : table_descriptors[t][2] = r]
    IN  idd => /\ Ordered(pointed_rd_linkds_d, place)
               /\ Ordered(pointing_rd_linkds_d, place)

-----------------------------------------------------------------------------
(* Fields that are pointed at and pointing *)

\* C26: after construction a field of the catalogue that has a 'reference'
\* and an 'object-list' tag is in the pointed bucket of every value of the
\* first and in the pointing bucket of every value of the second; its
\* detailed type is reference, and deserialize gives a record hook for a
\* value and never a forward link.
C26_BothTables ==
    idd =>
        \A r \in Registered : \A k \in 1..Len(rds[r].field_descriptors) :
            \A tags \in {Field(r, k).tags} :
                (has_tag(tags, <<"r","e","f","e","r","e","n","c","e">>) /\ has_tag(tags, <<"o","b","j","e","c","t","-","l","i","s","t">>)) =>
                    /\ \A n \in 1..Len(tags[<<"r","e","f","e","r","e","n","c","e">>]) :
                           InSeq(<<r, k - 1>>, links(pointed_rd_linkds_d, tags[<<"r","e","f","e","r","e","n","c","e">>][n]))
                    /\ \A n \in 1..Len(tags[<<"o","b","j","e","c","t","-","l","i","s","t">>]) :
                           InSeq(<<r, k - 1>>, links(pointing_rd_linkds_d, tags[<<"o","b","j","e","c","t","-","l","i","s","t">>][n]))
                    /\ detailed_type(Field(r, k)) = <<"r","e","f","e","r","e","n","c","e">>
                    /\ \A v \in { PyNone, PyStr(<<>>), PyStr(<<"A","b"," "," ","C">>), PyInt(5) } :
                           deserialize(Field(r, k), v).wrap # "Link"
                    /\ deserialize(Field(r, k), PyStr(<<"A","b"," "," ","C">>)) =
                           Returned("RecordHook", tags[<<"r","e","f","e","r","e","n","c","e">>], PyStr(<<"a","b"," ","c">>))

\* the field with the 'object-list' values x and w got a 'reference' tag and
\* stands in the buckets of all three names
C26_Witness ==
    /\ idd
    /\ Len(rds) = 1 /\ Len(rds[1].field_descriptors) = 1
    /\ Field(1, 1).tags = (<<"o","b","j","e","c","t","-","l","i","s","t">> :> << <<"x">>, <<"w">> >>) @@ (<<"r","e","f","e","r","e","n","c","e">> :> << <<"X">> >>)
    /\ pointed_rd_linkds_d = (<<"x">> :> << <<1, 0>> >>)
    /\ pointing_rd_linkds_d = (<<"x">> :> << <<1, 0>> >>) @@ (<<"w">> :> << <<1, 0>> >>)

-----------------------------------------------------------------------------
(* How deserialize fails *)

\* the detailed types that deserialize has a branch for
KnownKinds ==
    { <<"i","n","t","e","g","e","r">>, <<"r","e","a","l">>, <<"a","l","p","h","a">>, <<"c","h","o","i","c","e">>, <<"n","o","d","e">>, <<"e","x","t","e","r","n","a","l","-","l","i","s","t">>, <<"r","e","f","e","r","e","n","c","e">>, <<"o","b","j","e","c","t","-","l","i","s","t">> }

\* C27: on a field whose detailed type is a 'type' value that is none of the
\* eight known kinds, deserialize of a text that is not blank and has fewer
\* than 100 characters once normalized raises an error; on a field of a known
\* kind deserialize raises nothing but field validation errors.
C27_FailureKinds ==
    [][ \A call \in {fd_ret'} : \A kind \in {detailed_type(fd)} :
            call.op = "deserialize" =>
                /\ (kind \notin KnownKinds /\ kind # IndexError /\ FilledText(call.arg)
                        /\ Len(Normalized(fd.tags, call.arg.s)) < MaxFieldLen) =>
                       call.out.raised # "None"
                /\ kind \in KnownKinds =>
                       call.out.raised \in {"None", "FieldValidationError"} ]_vars

\* what the code does: an unknown kind ends in a RuntimeError for every value
\* that gets as far as the kind, and a field of kind object-list fails with a
\* KeyError or an IndexError when it has no 'object-list' value
C27_FailuresOfTheCode ==
    [][ \A call \in {fd_ret'} : \A kind \in {detailed_type(fd)} :
            (call.op = "deserialize" /\ ~returns_early(fd, call.arg)) =>
                /\ (kind \notin KnownKinds /\ kind # IndexError) => call.out = Raised("RuntimeError")
                /\ (kind \in KnownKinds /\ call.out.raised \notin {"None", "FieldValidationError"}) =>
                       /\ kind = <<"o","b","j","e","c","t","-","l","i","s","t">>
                       /\ get_tag(fd.tags, <<"o","b","j","e","c","t","-","l","i","s","t">>) = <<>>
                       /\ call.out.raised = IF has_tag(fd.tags, <<"o","b","j","e","c","t","-","l","i","s","t">>) THEN "IndexError"
                                            ELSE "KeyError" ]_vars

-----------------------------------------------------------------------------
(* The output-file parser: timestep and hourly instants *)

\* the rows of data among the first n rows of the file that open an environment
EnvironmentRows(file, n) ==
    LET dict_end == CHOOSE k \in 1..n : Strip(file[k]) = <<"E","n","d"," ","o","f"," ","D","a","t","a"," ","D","i","c","t","i","o","n","a","r","y">>
    IN  {k \in (dict_end + 1)..n : code_other(file[k])[1] = <<"1">>}

\* the code-2 rows among the first n rows of the file for the environment with this
\* title: those after its latest code-1 row and before the next code-1 row
InstantRows(file, n, title) ==
    LET rows  == EnvironmentRows(file, n)
        mine  == {k \in rows : Split(code_other(file[k])[2], ",")[1] = title}
        start == CHOOSE k \in mine : \A h \in mine : h <= k
        later == {k \in rows : k > start}
        end   == IF later = {} THEN n + 1 ELSE CHOOSE k \in later : \A h \in later : k <= h
    IN  {k \in (start + 1)..(end - 1) : code_other(file[k])[1] = <<"2">>}

\* (month, day, hour, end minute) of a code-2 row
InstantEnd(row) ==
    LET other == Split(code_other(row)[2], ",")
    IN  <<IntValue(other[2]), IntValue(other[3]), IntValue(other[5]) - 1,
          int_of(FloatValue(other[7])).n>>

\* after n rows of the file, every environment has as many timestep and hourly instants
\* as code-2 rows
InstantsCounted(file, n, data) ==
    \A title \in DOMAIN data :
        Len(data[title][InstantColumns.timestep]) + Len(data[title][InstantColumns.hourly])
            = Cardinality(InstantRows(file, n, title))

\* C28: when some variable is reported at 'Each Call' frequency, a code-2 row
\* that is read without error is recorded as exactly one instant of the
\* current environment: as an hourly instant when its (month, day, hour, end
\* minute) is the comparison point, else as a timestep instant, and then it
\* becomes the comparison point; a code-1 row leaves the comparison point as
\* it is; and in every environment the timestep instants and the hourly
\* instants are together as many as its code-2 rows.
C28_InstantRule ==
    [][ (manage_timesteps /\ eso_pc = "data" /\ eso_pc' # "failed") =>
            \A file \in {eso_file'} : \A n \in {eso_i'} : \A row \in {file[n]} :
            \A after \in {environments_data'} :
                /\ code_other(row)[1] = <<"2">> =>
                       LET ts     == InstantColumns.timestep
                           hourly == InstantColumns.hourly
                           before == environments_data[current_data]
                           now    == after[current_data]
                       IN  /\ current_data' = current_data
                           /\ \A t \in DOMAIN after \ {current_data} : after[t] = environments_data[t]
                           /\ \A c \in DOMAIN now \ {ts, hourly} : now[c] = before[c]
                           /\ IF last_timestep_end = InstantEnd(row)
                              THEN /\ Len(now[hourly]) = Len(before[hourly]) + 1
                                   /\ now[ts] = before[ts]
                                   /\ last_timestep_end' = last_timestep_end
                              ELSE /\ Len(now[ts]) = Len(before[ts]) + 1
                                   /\ now[hourly] = before[hourly]
                                   /\ last_timestep_end' = InstantEnd(row)
                /\ code_other(row)[1] = <<"1">> => last_timestep_end' = last_timestep_end
                /\ InstantsCounted(file, n, after) ]_vars

\* a second environment starts after a timestep instant that ended at minute 60: its first
\* row ends at minute 60 as well and is recorded as an hourly instant, the first
\* environment keeps its two timestep instants and its hourly instant
C28_Witness ==
    /\ manage_timesteps
    /\ eso_pc = "data"
    /\ current_data = <<"B">>
    /\ last_timestep_end = <<1, 1, 0, 60>>
    /\ eso_file[eso_i - 1] = <<"1",",","B",",","0",",","0",",","0",",","0","\n">>
    /\ eso_file[eso_i] = <<"2",",","1",",","1",",","1",",","0",",","1",",","0",".","0","0",",","6","0",".","0","0",",","M","o","n","\n">>
    /\ environments_data[<<"B">>][InstantColumns.timestep] = <<>>
    /\ environments_data[<<"B">>][InstantColumns.hourly] = << <<1, 1, 0, 0, <<"M","o","n">>>> >>
    /\ Len(environments_data[<<"A">>][InstantColumns.timestep]) = 2
    /\ Len(environments_data[<<"A">>][InstantColumns.hourly]) = 1

-----------------------------------------------------------------------------
(* The output-file parser: the tables of an environment *)

\* C29: in the result of parse every environment has an entry for each of the
\* six frequencies, the entry of a frequency is a table exactly when some
\* declared variable has that frequency, and the Annual table holds the year
\* and the annual variables: run-period variables are under RunPeriod.
C29_SixFrequencies ==
    eso_pc = "done" =>
        \A k \in 1..Len(environments) :
            LET dfs == environments_dfs[environments[k][1]]
            IN  /\ DOMAIN dfs = Range(Frequencies)
                /\ \A f \in Range(Frequencies) :
                       (~dfs[f].is_none) <=> (frequency_codes(variables_info, f) # <<>>)
                /\ ~dfs[Frequency.ANNUAL].is_none =>
                       DOMAIN dfs[Frequency.ANNUAL].columns =
                           {InstantColumns.annual}
                               \cup Range(frequency_codes(variables_info, Frequency.ANNUAL))

\* what the code does: the table of the run-period variables is stored under
\* Annual, in the place of the table of the annual variables if there is
\* one, and the entry of RunPeriod is always null
C29_TablesOfTheCode ==
    eso_pc = "done" =>
        \A k \in 1..Len(environments) :
            LET dfs        == environments_dfs[environments[k][1]]
                run_period == frequency_codes(variables_info, Frequency.RUN_PERIOD)
                annual     == frequency_codes(variables_info, Frequency.ANNUAL)
            IN  /\ DOMAIN dfs = Range(Frequencies)
                /\ \A f \in {Frequency.TIMESTEP, Frequency.HOURLY, Frequency.DAILY,
                            Frequency.MONTHLY} :
                       (~dfs[f].is_none) <=> (frequency_codes(variables_info, f) # <<>>)
                /\ dfs[Frequency.RUN_PERIOD].is_none
                /\ (~dfs[Frequency.ANNUAL].is_none) <=> (annual # <<>> \/ run_period # <<>>)
                /\ run_period # <<>> => DOMAIN dfs[Frequency.ANNUAL].columns = Range(run_period)
                /\ (run_period = <<>> /\ annual # <<>>) =>
                       DOMAIN dfs[Frequency.ANNUAL].columns =
                           {InstantColumns.annual} \cup Range(annual)
====
